---- MODULE Spec2Model ----
(***************************************************************************)
(* Engagement throttle and delivery coordinator of the companion bot:      *)
(* the user_state table (companion_core/db.py), the slot claim and its     *)
(* two settle operations, the rss_seen table, and the periodic drivers     *)
(* built on them (proactive.py, rss_push.py, weather_push.py,              *)
(* github_weekly_push.py).                                                 *)
(*                                                                         *)
(* Time is the integer unix timestamp the code stores (seconds).  The      *)
(* clock moves in jumps to the instants at which some comparison in the    *)
(* code changes its outcome (a stored lock_until and the second before it, *)
(* a stored cooldown_until, an idle bound of a user, midnight).            *)
(*                                                                         *)
(* The database file outlives the processes (init_db only creates missing  *)
(* tables): a behaviour starts when the worker processes start, at 08:20   *)
(* of day 1, on one of the databases earlier runs can have left.           *)
(***************************************************************************)
EXTENDS Integers, Sequences, FiniteSets, TLC

(* ----------------------------- bounds ---------------------------------- *)
MaxTicks      == 1   \* clock jumps in one behaviour of the nudge driver alone
MaxTicksShare == 1   \* clock jumps in one behaviour of the nudge and share drivers
MaxTicksAll   == 1   \* clock jumps in one behaviour of the three drivers
MaxTicksWeekly == 1  \* clock jumps in one behaviour of the weekly digest
MaxManual     == 2   \* manual triggers of the weekly digest in one behaviour
MaxTicksSeen  == 2   \* clock jumps in one behaviour of the rss_seen table alone
MaxTicksOps   == 2   \* clock jumps in one behaviour of the claim called directly

(* ------------------------- program constants --------------------------- *)
ACTIVE_WITHIN_SECONDS      == 24 * 60 * 60
LOCK_SECONDS               == 300
PROACTIVE_MAX_PER_DAY      == 2
PROACTIVE_COOLDOWN_MINUTES == 240
PROACTIVE_IDLE_HOURS       == 8
NOSEND_COOLDOWN_SECONDS    == 900
FAILED_COOLDOWN_SECONDS    == 600
CANDIDATE_LIMIT            == 20
QUIET_START                == 23 * 3600      \* time(23, 0)
QUIET_END                  == 8 * 3600       \* time(8, 0)
RSS_IDLE_MINUTES_MIN       == 60
RSS_IDLE_MINUTES_MAX       == 180
RSS_COOLDOWN_MINUTES       == 120
RSS_LOCK_SECONDS           == 300
IDLE_STATES_LIMIT          == 200
WEATHER_PUSH_AT            == 8 * 3600 + 20 * 60   \* cron hour=8, minute=20
MISFIRE_GRACE_TIME         == 60
GITHUB_WEEKLY_ENABLED      == TRUE           \* GITHUB_WEEKLY_ENABLED=1
GITHUB_WEEKLY_RUN_DAY      == 6              \* cron day_of_week sun (mon = 0)
GITHUB_WEEKLY_RUN_AT       == 20 * 3600 + 30 * 60  \* cron hour=20, minute=30
GITHUB_WEEKLY_GRACE_TIME   == 6 * 60 * 60    \* misfire_grace_time

Users      == {1, 2}                \* user ids (QQ numbers)
Workers    == {"w1", "w2"}          \* processes running proactive_job
NoWorker   == "none"
NoDate     == -1                    \* proactive_date = ''
FirstUser  == CHOOSE u \in Users : \A v \in Users : u <= v
GwRuns     == {"cron", "manual"}    \* the callers of _run_once
Drivers    == Workers \cup {"share"} \* the drivers that claim a slot
GITHUB_WEEKLY_USER_ID == FirstUser  \* the configured receiver of the digest
FinRunners == {"cron", "command"} \* the callers of run_cn_a_daily
STALE_AFTER_SECONDS == 30 * 60      \* try_start_job_ex: stale_after_seconds
MaxTicksFin == 1                    \* clock jumps of the report's specification
INFO_AGENT_CHECK_INTERVAL_MINUTES == 30
INFO_AGENT_DAILY_LIMIT            == 3
INFO_AGENT_IDLE_MINUTES_MIN       == 30
INFO_AGENT_QUIET_START_HOUR       == 23
INFO_AGENT_QUIET_END_HOUR         == 8
INFO_AGENT_FALLBACK_PUSH_HOURS    == {9, 13, 19}
MaxTicksInfo == 2                   \* clock jumps of the info agent's specification
MaxDecision  == 2                   \* messages one decision of the agent returns

VARIABLES
    now,          \* wall clock (unix seconds)
    ticks,        \* clock jumps taken so far
    user_state,   \* table user_state: user id -> row
    db_writer,    \* connection holding SQLite's write lock, or NoWorker
    pc,           \* nudge worker -> position in proactive_job
    cands,        \* nudge worker -> remaining candidates of this tick
    w_now,        \* nudge worker -> `now` of _handle_one_candidate
    w_row,        \* nudge worker -> row read by the SELECT of the running operation
    w_fail_cd,    \* nudge worker -> cooldown_seconds of the pending mark_proactive_failed
    w_elig,       \* history: nudge worker -> the row was claimable when claim was called
    last_claim,   \* history: nudge worker -> its latest claim call and result
    msgs,         \* history: user -> number of unsolicited messages delivered
    window_end,   \* history: user -> latest cooldown_until written for a delivered message
    consec,       \* history: user -> run of settle_sent calls on one day
    rss_seen_tbl,       \* table rss_seen: set of rows
    weather_daily_push, \* table weather_daily_push: set of rows
    marked,       \* history: fingerprints rss_mark_seen was called for
    r_pc,         \* share worker: position in _push_when_idle
    r_now,        \* share worker: `now` of _push_when_idle
    r_targets,    \* share worker: remaining targets (user id, last_active_ts)
    wt_pc,        \* weather worker: position in _push_weather_once
    wt_today,     \* weather worker: `today` of _push_weather_once
    wt_targets,   \* weather worker: remaining targets
    r_items,      \* share worker: the items this tick fetched
    win,          \* history: user -> end of the latest window each category wrote
    github_weekly_push, \* table github_weekly_push: set of rows
    gw_pc,        \* weekly run -> position in _run_once
    gw_week,      \* weekly run -> week_key of _run_once
    gw_force,     \* weekly run -> the force argument of _run_once
    gw_cron_at,   \* the scheduled time the cron trigger last fired for
    gw_manual,    \* manual triggers received so far
    gw_sent,      \* history: week -> digests delivered by runs without force
    held,         \* history: driver -> it claimed a slot and has not settled it
    scan_limit,   \* the limit of the latest call of get_proactive_candidates (0: none)
    tick_sent,    \* history: nudge worker -> users its current tick delivered a nudge to
    thr_used,     \* history: user -> the idle thresholds the share driver compared with
    fin_job,      \* table daily_jobs: the row of one job key (market|trade_date)
    fin_pc,       \* report runner -> position in run_cn_a_daily
    fin_now,      \* report runner -> now_ts of its try_start_job_ex
    fin_force,    \* report runner -> the force argument of its run
    fin_peer,     \* history: report runner -> the call that committed while its own waited
    fin_last,     \* history: report runner -> its latest try_start_job_ex and result
    fin_ever,     \* history: "forced" once a run was forced, else "done" once one succeeded
    info_count,   \* _daily_push_count: user -> day -> count
    info_pushed,  \* history: user -> day -> messages push_messages delivered
    i_pc,         \* info agent: position in _run_push_cycle
    i_now,        \* info agent: `now` of _run_push_cycle
    i_targets,    \* info agent: remaining targets (user id, idle minutes)
    i_left        \* info agent: messages of the decision not pushed yet

\* what the nudge driver and the clock leave alone
share_vars == << rss_seen_tbl, weather_daily_push, marked, r_pc, r_now,
                 r_targets, wt_pc, wt_today, wt_targets, r_items >>

\* what the share and weather drivers leave alone
nudge_vars == << pc, cands, w_now, w_row, w_fail_cd, w_elig, last_claim, consec >>

\* what every driver but the weekly digest leaves alone
weekly_vars == << github_weekly_push, gw_pc, gw_week, gw_force, gw_cron_at,
                  gw_manual, gw_sent >>

\* what the drivers modelled first leave alone
\* the market report's job gate
fin_vars == << fin_job, fin_pc, fin_now, fin_force, fin_peer, fin_last, fin_ever >>

\* what the drivers of companion_core leave alone
\* the info agent
info_vars == << info_count, info_pushed, i_pc, i_now, i_targets, i_left >>

late_vars == << fin_vars, info_vars >>

aux_vars == << scan_limit, tick_sent, thr_used, late_vars >>

vars == << now, ticks, user_state, db_writer, pc, cands, w_now,
           w_row, w_fail_cd, w_elig, last_claim, msgs, window_end, consec,
           rss_seen_tbl, weather_daily_push, marked, r_pc, r_now, r_targets,
           wt_pc, wt_today, wt_targets, r_items, win,
           github_weekly_push, gw_pc, gw_week, gw_force, gw_cron_at,
           gw_manual, gw_sent, held, scan_limit, tick_sent, thr_used,
           fin_job, fin_pc, fin_now, fin_force, fin_peer, fin_last, fin_ever,
           info_count, info_pushed, i_pc, i_now, i_targets, i_left >>

(* ------------------------------ time ----------------------------------- *)
\* datetime.date() / date.isoformat(): the calendar day of a timestamp
DayOf(ts) == ts \div (24 * 60 * 60)

\* the behaviour starts at 08:20 of day 1
T0 == (24 + 8) * 3600 + 20 * 60

\* datetime.time(): seconds since midnight
TimeOfDay(ts) == ts % (24 * 60 * 60)

\* first midnight strictly after ts
NextMidnight(ts) == (DayOf(ts) + 1) * (24 * 60 * 60)

Max(a, b) == IF a >= b THEN a ELSE b

\* _iso_week_key(dt): the ISO week of a timestamp, counted from the week of
\* 1970-01-01 (a Thursday); weeks start on Monday
WeekOf(ts) == (DayOf(ts) + 3) \div 7

\* the week keys a behaviour can meet
Weeks == { WeekOf(T0), WeekOf(T0) + 1 }

\* the time the weekly cron trigger is scheduled for in the week of ts
ThisWeekRun(ts) ==
    (WeekOf(ts) * 7 - 3 + GITHUB_WEEKLY_RUN_DAY) * (24 * 60 * 60)
        + GITHUB_WEEKLY_RUN_AT

\* the first scheduled time strictly after ts, and the latest one up to ts
NextWeeklyRun(ts) ==
    IF ThisWeekRun(ts) > ts THEN ThisWeekRun(ts)
    ELSE ThisWeekRun(ts) + 7 * 24 * 60 * 60

LastWeeklyRun(ts) ==
    IF ThisWeekRun(ts) <= ts THEN ThisWeekRun(ts)
    ELSE ThisWeekRun(ts) - 7 * 24 * 60 * 60

(* --------------------------- table user_state -------------------------- *)
\* column defaults of CREATE TABLE user_state; exists = FALSE: no row
DefaultRow ==
    [ exists                |-> FALSE,
      last_active_ts        |-> 0,
      last_proactive_ts     |-> 0,
      proactive_date        |-> NoDate,
      proactive_count_today |-> 0,
      proactive_enabled     |-> 1,
      cooldown_until_ts     |-> 0,
      lock_until_ts         |-> 0 ]

\* an INSERT that replaces the row it finds
InsertOrReplace(row, ts) ==
    [DefaultRow EXCEPT !.exists = TRUE, !.last_active_ts = ts]

\* INSERT OR IGNORE INTO user_state (user_id, last_active_ts) VALUES (?, ?)
InsertOrIgnore(row, ts) ==
    IF row.exists THEN row
    ELSE [DefaultRow EXCEPT !.exists = TRUE, !.last_active_ts = ts]

(* ------------------------ db.py: pure parts ---------------------------- *)
\* touch_active: INSERT OR IGNORE, then UPDATE last_active_ts
TouchRow(row, now_ts) ==
    [InsertOrIgnore(row, now_ts) EXCEPT !.last_active_ts = now_ts]

\* the quota check without the day comparison
EffectiveCountStored(row, today) == row.proactive_count_today

\* claim_proactive_slot, lines 324-325: the count the quota check uses
EffectiveCount(row, today) ==
    IF row.proactive_date # today THEN 0 ELSE row.proactive_count_today

\* a lock that still refuses at the instant it ends
LockBlocksAtEnd(lock_until_ts, now_ts) == lock_until_ts >= now_ts

\* claim_proactive_slot, line 335: an unexpired lock refuses the claim
LockBlocks(lock_until_ts, now_ts) == lock_until_ts > now_ts

\* a cooldown that still refuses at the instant it ends
CooldownBlocksAtEnd(cooldown_until_ts, now_ts) == cooldown_until_ts >= now_ts

\* claim_proactive_slot, line 331: an unexpired cooldown refuses the claim
CooldownBlocks(cooldown_until_ts, now_ts) == cooldown_until_ts > now_ts

\* claim_proactive_slot._sync, lines 319-341, on the row the SELECT returned
ClaimDecision(row, now_ts, today, max_per_day) ==
    IF row.proactive_enabled # 1 THEN FALSE
    ELSE IF EffectiveCount(row, today) >= max_per_day THEN FALSE
    ELSE IF CooldownBlocks(row.cooldown_until_ts, now_ts) THEN FALSE
    ELSE IF LockBlocks(row.lock_until_ts, now_ts) THEN FALSE
    ELSE TRUE

\* a lock that ends when it is taken
ClaimLockUntilNow(now_ts, lock_seconds) == now_ts

\* claim_proactive_slot, lines 294 and 339: the lock the UPDATE writes
ClaimLockUntil(now_ts, lock_seconds) == now_ts + lock_seconds

\* a new_cnt that keeps the count of the day
NewCountKept(read, today) ==
    IF read.exists /\ read.proactive_date = today
    THEN read.proactive_count_today
    ELSE 1

\* mark_proactive_sent, lines 357-360: new_cnt from the row the SELECT returned
NewCount(read, today) ==
    IF read.exists /\ read.proactive_date = today
    THEN read.proactive_count_today + 1
    ELSE 1

\* mark_proactive_sent, lines 362-373: the UPDATE (no row: nothing is updated)
SentUpdate(row, now_ts, today, new_cnt, cooldown_minutes) ==
    IF ~row.exists THEN row
    ELSE [row EXCEPT !.last_proactive_ts     = now_ts,
                     !.proactive_date        = today,
                     !.proactive_count_today = new_cnt,
                     !.cooldown_until_ts     = now_ts + cooldown_minutes * 60,
                     !.lock_until_ts         = 0]

\* mark_proactive_failed, lines 389-393: the UPDATE, old_cd from the SELECT
FailedUpdate(row, read, now_ts, cooldown_seconds) ==
    IF ~row.exists THEN row
    ELSE [row EXCEPT !.lock_until_ts     = 0,
                     !.cooldown_until_ts =
                         Max(IF read.exists THEN read.cooldown_until_ts ELSE 0,
                             now_ts + cooldown_seconds)]

\* a WHERE clause without lock_until_ts <= ?
IsCandidateAnyLock(row, now_ts, idle_ts) ==
    /\ row.exists
    /\ row.proactive_enabled = 1
    /\ row.last_active_ts > 0
    /\ row.last_active_ts <= idle_ts
    /\ row.last_active_ts >= Max(0, now_ts - ACTIVE_WITHIN_SECONDS)
    /\ row.cooldown_until_ts <= now_ts

\* the WHERE clause of get_proactive_candidates (lines 254-259)
IsCandidate(row, now_ts, idle_ts) ==
    /\ row.exists
    /\ row.proactive_enabled = 1
    /\ row.last_active_ts > 0
    /\ row.last_active_ts <= idle_ts
    /\ row.last_active_ts >= Max(0, now_ts - ACTIVE_WITHIN_SECONDS)
    /\ row.cooldown_until_ts <= now_ts
    /\ row.lock_until_ts <= now_ts

\* ORDER BY last_active_ts ASC over a set of user ids (ties: by user id)
RECURSIVE SortByActive(_, _)
SortByActive(S, tbl) ==
    IF S = {} THEN << >>
    ELSE LET u == CHOOSE x \in S : \A y \in S :
                      \/ tbl[x].last_active_ts < tbl[y].last_active_ts
                      \/ /\ tbl[x].last_active_ts = tbl[y].last_active_ts
                         /\ x <= y
         IN << u >> \o SortByActive(S \ {u}, tbl)

\* LIMIT ?
Take(seq, n) == SubSeq(seq, 1, IF Len(seq) < n THEN Len(seq) ELSE n)

\* get_proactive_candidates(now, idle_before, limit)
get_proactive_candidates(tbl, now_ts, idle_ts, limit) ==
    Take(SortByActive({u \in Users : IsCandidate(tbl[u], now_ts, idle_ts)}, tbl),
         limit)

(* --------------------------- SQLite write lock ------------------------- *)
\* a transaction that reads without taking the write lock
BeginDeferred(w) == db_writer' = db_writer

\* conn.execute("BEGIN IMMEDIATE") (db.py line 299): the transaction takes the
\* database's write lock before it reads; it waits while another holds it
BeginImmediate(w) == db_writer = NoWorker /\ db_writer' = w

\* a statement that writes outside an open transaction takes the write lock
\* for itself and commits at once; it waits while another holds the lock
CanWrite == db_writer = NoWorker

(* ------------------------------- Init ---------------------------------- *)
\* history of a worker's latest claim call: its arguments, whether the row was
\* claimable when it was called, the row its SELECT returned, its result, and
\* the workers whose latest call returned while this one was running
NoClaim == [made |-> FALSE, user |-> 1, now |-> 0, eligible |-> FALSE,
            ok |-> FALSE, row |-> DefaultRow, during |-> {}, overlapped |-> {}]

NoRun == [day |-> NoDate, n |-> 0]

NoWindow == [nudge |-> 0, share |-> 0]

\* rows earlier runs of the program leave behind for the first user:
\*   no row: the user never wrote;
\*   the user wrote at 00:20 today and was never nudged;
\*   the user wrote at 12:20 yesterday and was nudged once, at 04:20 today;
\*   the user was nudged twice yesterday (at 11:20 and at 15:20) and answered
\*   at 15:50
InitRows ==
    { DefaultRow,
      [DefaultRow EXCEPT !.exists = TRUE, !.last_active_ts = T0 - 8 * 3600],
      [DefaultRow EXCEPT !.exists = TRUE, !.last_active_ts = T0 - 20 * 3600,
           !.last_proactive_ts = T0 - 4 * 3600, !.proactive_date = DayOf(T0),
           !.proactive_count_today = 1,
           !.cooldown_until_ts = T0 - 4 * 3600 + PROACTIVE_COOLDOWN_MINUTES * 60],
      [DefaultRow EXCEPT !.exists = TRUE, !.last_active_ts = T0 - 16 * 3600 - 1800,
           !.last_proactive_ts = T0 - 17 * 3600, !.proactive_date = DayOf(T0) - 1,
           !.proactive_count_today = PROACTIVE_MAX_PER_DAY,
           !.cooldown_until_ts = T0 - 17 * 3600 + PROACTIVE_COOLDOWN_MINUTES * 60] }

\* the days _daily_push_count holds counters for
InfoDays == DayOf(T0) .. (DayOf(T0) + MaxTicksInfo)

\* daily_jobs holds no row for the job key
NoJob == [status |-> "none", started_ts |-> 0]

\* no call of try_start_job_ex yet
NoFinCall == [made |-> FALSE, force |-> FALSE, ok |-> FALSE, now |-> 0,
              row |-> NoJob, ever |-> FALSE, peer_made |-> FALSE,
              peer_force |-> FALSE, peer_ok |-> FALSE]

\* the tables and history of the later drivers start empty
InitLate ==
    /\ thr_used = [u \in Users |-> {}]
    /\ fin_job = NoJob
    /\ fin_pc = [r \in FinRunners |-> "idle"]
    /\ fin_now = [r \in FinRunners |-> 0]
    /\ fin_force = [r \in FinRunners |-> FALSE]
    /\ fin_peer = [r \in FinRunners |-> NoFinCall]
    /\ fin_last = [r \in FinRunners |-> NoFinCall]
    /\ fin_ever = "never"
    /\ info_count = [u \in Users |-> [d \in InfoDays |-> 0]]
    /\ info_pushed = [u \in Users |-> [d \in InfoDays |-> 0]]
    /\ i_pc = "idle"
    /\ i_now = 0
    /\ i_targets = << >>
    /\ i_left = 0

Init ==
    /\ now = T0
    /\ ticks = 0
    /\ user_state \in {f \in [Users -> InitRows] :
                         \A u \in Users : f[u].exists => u = FirstUser}
    /\ db_writer = NoWorker
    /\ pc = [w \in Workers |-> "idle"]
    /\ cands = [w \in Workers |-> << >>]
    /\ w_now = [w \in Workers |-> 0]
    /\ w_row = [w \in Workers |-> DefaultRow]
    /\ w_fail_cd = [w \in Workers |-> 0]
    /\ w_elig = [w \in Workers |-> FALSE]
    /\ last_claim = [w \in Workers |-> NoClaim]
    /\ msgs = [u \in Users |-> 0]
    /\ window_end = [u \in Users |-> 0]
    /\ consec = [u \in Users |->
           IF user_state[u].proactive_count_today = 1
           THEN [day |-> user_state[u].proactive_date, n |-> 1] ELSE NoRun]
    /\ rss_seen_tbl = {}
    /\ weather_daily_push = {}
    /\ marked = {}
    /\ r_pc = "idle"
    /\ r_now = 0
    /\ r_targets = << >>
    /\ wt_pc = "idle"
    /\ wt_today = NoDate
    /\ wt_targets = << >>
    /\ r_items = << >>
    /\ win = [u \in Users |-> NoWindow]
    /\ github_weekly_push = {}
    /\ gw_pc = [r \in GwRuns |-> "idle"]
    /\ gw_week = [r \in GwRuns |-> NoDate]
    /\ gw_force = [r \in GwRuns |-> FALSE]
    /\ gw_cron_at = 0
    /\ gw_manual = 0
    /\ gw_sent = [k \in Weeks |-> 0]
    /\ held = [d \in Drivers |-> FALSE]
    /\ scan_limit = 0
    /\ tick_sent = [w \in Workers |-> {}]
    /\ InitLate

(* --------------------------- environment ------------------------------- *)
\* the instants at which a comparison of the code changes its outcome: the
\* end of a lock and the second before it, the end of a cooldown, the idle
\* bound of the nudge scan, midnight
Instants ==
    UNION { { user_state[u].lock_until_ts - 1, user_state[u].lock_until_ts,
              user_state[u].cooldown_until_ts,
              user_state[u].last_active_ts + PROACTIVE_IDLE_HOURS * 3600 }
            : u \in {x \in Users : user_state[x].exists} }
    \cup { NextMidnight(now) }

\* time passes: while the workers are idle, or wait for a generator, for a
\* delivery or for the database.  A claim is called as soon as the clock is
\* read (proactive.py lines 69-72; rss_push.py lines 149-206, with the fetch
\* of the feeds in between, which the fetchers' timeouts keep short)
Pass(max_ticks) ==
    /\ ticks < max_ticks
    /\ \A w \in Workers : pc[w] \notin {"claim", "claim_txn"}
    /\ r_pc \notin {"claim", "claim2"}
    /\ \E t \in Instants : t > now /\ now' = t
    /\ ticks' = ticks + 1
    /\ last_claim' = [w \in Workers |-> NoClaim]
    /\ UNCHANGED << user_state, db_writer, pc, cands, w_now, w_row,
                    w_fail_cd, w_elig, msgs, window_end, consec, win >>
    /\ UNCHANGED share_vars
    /\ UNCHANGED aux_vars
    /\ UNCHANGED weekly_vars
    /\ UNCHANGED held

Tick == Pass(MaxTicks)

TickShare == Pass(MaxTicksShare)

TickAll == Pass(MaxTicksAll)

\* handlers.py lines 569, 617: an inbound message of user u -> touch_active
\* (one user is followed in a behaviour, and writes at most once in it)
Touch(u) ==
    /\ \A v \in Users \ {u} : ~user_state[v].exists
    /\ user_state[u].last_active_ts < T0
    /\ CanWrite
    /\ user_state' = [user_state EXCEPT ![u] = TouchRow(@, now)]
    /\ UNCHANGED << now, ticks, db_writer, pc, cands, w_now, w_row, w_fail_cd,
                    w_elig, last_claim, msgs, window_end, consec >>
    /\ UNCHANGED share_vars
    /\ UNCHANGED aux_vars
    /\ UNCHANGED weekly_vars
    /\ UNCHANGED held
    /\ UNCHANGED win

(* ------------------- proactive.py: the nudge driver -------------------- *)
\* whether a claim at now_ts is due to succeed on this row (the claims' words:
\* enabled, under quota, not cooling, not locked)
Eligible(row, now_ts) ==
    /\ row.exists
    /\ row.proactive_enabled = 1
    /\ EffectiveCount(row, DayOf(now_ts)) < PROACTIVE_MAX_PER_DAY
    /\ row.cooldown_until_ts <= now_ts
    /\ row.lock_until_ts <= now_ts

\* _handle_one_candidate lines 69-77: `now` is taken and the claim is called
CallClaim(w, u) ==
    /\ w_now' = [w_now EXCEPT ![w] = now]
    /\ w_elig' = [w_elig EXCEPT ![w] = Eligible(user_state[u], now)]

\* proactive_job lines 129-132 after a candidate returned False: the loop
\* goes on to the next candidate, or the job ends
NextCandidate(w) ==
    IF Len(cands[w]) > 1
    THEN /\ cands' = [cands EXCEPT ![w] = Tail(@)]
         /\ pc' = [pc EXCEPT ![w] = "claim"]
         /\ CallClaim(w, cands[w][2])
    ELSE /\ cands' = [cands EXCEPT ![w] = << >>]
         /\ pc' = [pc EXCEPT ![w] = "idle"]
         /\ w_now' = [w_now EXCEPT ![w] = 0]
         /\ w_elig' = [w_elig EXCEPT ![w] = FALSE]

\* proactive_job lines 122-130: scan, then enter the first candidate
JobScan(w) ==
    /\ pc[w] = "idle"
    /\ LET found == get_proactive_candidates(user_state, now,
                         now - PROACTIVE_IDLE_HOURS * 3600, CANDIDATE_LIMIT)
       IN /\ found # << >>
          /\ cands' = [cands EXCEPT ![w] = found]
          /\ pc' = [pc EXCEPT ![w] = "claim"]
          /\ CallClaim(w, found[1])
    /\ UNCHANGED << now, ticks, user_state, db_writer, w_row,
                    w_fail_cd, last_claim, msgs, window_end, consec >>
    /\ UNCHANGED share_vars
    /\ UNCHANGED << scan_limit, thr_used, late_vars >>
    /\ tick_sent' = [tick_sent EXCEPT ![w] = {}]
    /\ UNCHANGED weekly_vars
    /\ UNCHANGED held
    /\ UNCHANGED win

\* claim_proactive_slot._sync lines 297-317: BEGIN IMMEDIATE and the SELECT
\* (with the lazily inserted row when there is none)
ClaimBegin(w) ==
    /\ pc[w] = "claim"
    /\ BeginImmediate(w)
    /\ w_row' = [w_row EXCEPT ![w] = InsertOrIgnore(user_state[cands[w][1]], w_now[w])]
    /\ pc' = [pc EXCEPT ![w] = "claim_txn"]
    /\ UNCHANGED << now, ticks, user_state, cands, w_now, w_elig,
                    w_fail_cd, last_claim, msgs, window_end, consec >>
    /\ UNCHANGED share_vars
    /\ UNCHANGED aux_vars
    /\ UNCHANGED weekly_vars
    /\ UNCHANGED held
    /\ UNCHANGED win

\* claim_proactive_slot._sync lines 319-341: the checks, then rollback or
\* UPDATE lock_until_ts and commit; _handle_one_candidate lines 78-79
ClaimCommit(w) ==
    /\ pc[w] = "claim_txn"
    /\ LET u  == cands[w][1]
           ok == ClaimDecision(w_row[w], w_now[w], DayOf(w_now[w]),
                               PROACTIVE_MAX_PER_DAY)
       IN /\ db_writer' = IF db_writer = w THEN NoWorker ELSE db_writer
          /\ last_claim' = [x \in Workers |->
                IF x = w
                THEN [made |-> TRUE, user |-> u, now |-> w_now[w],
                      eligible |-> w_elig[w], ok |-> ok, row |-> w_row[w],
                      during |-> {v \in Workers \ {w} :
                                     pc[v] \in {"claim", "claim_txn"}},
                      overlapped |-> {v \in Workers \ {w} :
                                         w \in last_claim[v].during}]
                ELSE [last_claim[x] EXCEPT !.during = @ \ {w},
                                           !.overlapped = @ \ {w}]]
          /\ IF ok
             THEN /\ user_state' = [user_state EXCEPT ![u] =
                        [InsertOrIgnore(@, w_now[w]) EXCEPT !.lock_until_ts =
                            ClaimLockUntil(w_now[w], LOCK_SECONDS)]]
                  /\ win' = [win EXCEPT ![u].nudge =
                        Max(@, ClaimLockUntil(w_now[w], LOCK_SECONDS))]
                  /\ pc' = [pc EXCEPT ![w] = "generate"]
                  /\ UNCHANGED << cands, w_now, w_elig >>
             ELSE /\ user_state' = user_state
                  /\ win' = win
                  /\ NextCandidate(w)
    /\ w_row' = [w_row EXCEPT ![w] = DefaultRow]
    /\ UNCHANGED << now, ticks, w_fail_cd, msgs, window_end, consec >>
    /\ UNCHANGED share_vars
    /\ UNCHANGED aux_vars
    /\ UNCHANGED weekly_vars
    /\ held' = [held EXCEPT ![w] =
           ClaimDecision(w_row[w], w_now[w], DayOf(w_now[w]), PROACTIVE_MAX_PER_DAY)]

\* _handle_one_candidate lines 81-96, 102-104: the generator returns a text
\* and _send_bubbles delivers it; or the generator declines (should_send
\* false or empty text); or it, or the delivery, raises before anything is
\* delivered
Generate(w) ==
    /\ pc[w] = "generate"
    /\ \E outcome \in {"text", "nosend", "raise"} :
          \/ /\ outcome = "text"
             /\ msgs' = [msgs EXCEPT ![cands[w][1]] = @ + 1]
             /\ pc' = [pc EXCEPT ![w] = "sent"]
             /\ tick_sent' = [tick_sent EXCEPT ![w] = @ \cup {cands[w][1]}]
             /\ UNCHANGED w_fail_cd
          \/ /\ outcome = "nosend"
             /\ pc' = [pc EXCEPT ![w] = "failed"]
             /\ w_fail_cd' = [w_fail_cd EXCEPT ![w] = NOSEND_COOLDOWN_SECONDS]
             /\ UNCHANGED << msgs, tick_sent >>
          \/ /\ outcome = "raise"
             /\ pc' = [pc EXCEPT ![w] = "failed"]
             /\ w_fail_cd' = [w_fail_cd EXCEPT ![w] = FAILED_COOLDOWN_SECONDS]
             /\ UNCHANGED << msgs, tick_sent >>
    /\ UNCHANGED << now, ticks, user_state, db_writer, cands, w_now,
                    w_elig, w_row, last_claim, window_end, consec >>
    /\ UNCHANGED share_vars
    /\ UNCHANGED << scan_limit, thr_used, late_vars >>
    /\ UNCHANGED weekly_vars
    /\ UNCHANGED held
    /\ UNCHANGED win

\* mark_proactive_sent._sync line 355-356: the SELECT
SettleSentRead(w) ==
    /\ pc[w] = "sent"
    /\ w_row' = [w_row EXCEPT ![w] = user_state[cands[w][1]]]
    /\ pc' = [pc EXCEPT ![w] = "sent_write"]
    /\ UNCHANGED << now, ticks, user_state, db_writer, cands, w_now,
                    w_elig, w_fail_cd, last_claim, msgs, window_end, consec >>
    /\ UNCHANGED share_vars
    /\ UNCHANGED aux_vars
    /\ UNCHANGED weekly_vars
    /\ UNCHANGED held
    /\ UNCHANGED win

\* history: the run of settle_sent calls of one day, each of which read the
\* row it then updated (calls that follow one another, none overlapping)
NextRun(run, read, row, today) ==
    IF read.proactive_date # row.proactive_date
         \/ read.proactive_count_today # row.proactive_count_today
    THEN NoRun
    ELSE IF row.proactive_date # today \/ row.proactive_count_today = 0
    THEN [day |-> today, n |-> 1]
    ELSE IF run.day = today /\ run.n > 0
    THEN [day |-> today, n |-> run.n + 1]
    ELSE NoRun

\* mark_proactive_sent._sync lines 362-374: the UPDATE and commit;
\* _handle_one_candidate line 101 returns True and proactive_job breaks
SettleSentWrite(w) ==
    /\ pc[w] = "sent_write"
    /\ CanWrite
    /\ LET u      == cands[w][1]
           today  == DayOf(w_now[w])
       IN /\ user_state' = [user_state EXCEPT ![u] =
                SentUpdate(@, w_now[w], today, NewCount(w_row[w], today),
                           PROACTIVE_COOLDOWN_MINUTES)]
          /\ window_end' = [window_end EXCEPT ![u] =
                Max(@, user_state'[u].cooldown_until_ts)]
          /\ consec' = [consec EXCEPT ![u] =
                NextRun(@, w_row[w], user_state[u], today)]
          /\ win' = [win EXCEPT ![u].nudge =
                Max(@, user_state'[u].cooldown_until_ts)]
    /\ pc' = [pc EXCEPT ![w] = "idle"]
    /\ cands' = [cands EXCEPT ![w] = << >>]
    /\ w_now' = [w_now EXCEPT ![w] = 0]
    /\ w_elig' = [w_elig EXCEPT ![w] = FALSE]
    /\ w_row' = [w_row EXCEPT ![w] = DefaultRow]
    /\ UNCHANGED << now, ticks, db_writer, w_fail_cd, last_claim, msgs >>
    /\ UNCHANGED share_vars
    /\ UNCHANGED aux_vars
    /\ UNCHANGED weekly_vars
    /\ held' = [held EXCEPT ![w] = FALSE]

\* mark_proactive_failed._sync lines 387-389: the SELECT
SettleFailedRead(w) ==
    /\ pc[w] = "failed"
    /\ w_row' = [w_row EXCEPT ![w] = user_state[cands[w][1]]]
    /\ pc' = [pc EXCEPT ![w] = "failed_write"]
    /\ UNCHANGED << now, ticks, user_state, db_writer, cands, w_now,
                    w_elig, w_fail_cd, last_claim, msgs, window_end, consec >>
    /\ UNCHANGED share_vars
    /\ UNCHANGED aux_vars
    /\ UNCHANGED weekly_vars
    /\ UNCHANGED held
    /\ UNCHANGED win

\* mark_proactive_failed._sync lines 390-394: the UPDATE and commit;
\* _handle_one_candidate returns False
SettleFailedWrite(w) ==
    /\ pc[w] = "failed_write"
    /\ CanWrite
    /\ user_state' = [user_state EXCEPT ![cands[w][1]] =
           FailedUpdate(@, w_row[w], w_now[w], w_fail_cd[w])]
    /\ NextCandidate(w)
    /\ w_row' = [w_row EXCEPT ![w] = DefaultRow]
    /\ w_fail_cd' = [w_fail_cd EXCEPT ![w] = 0]
    /\ UNCHANGED << now, ticks, db_writer, last_claim, msgs, window_end, consec >>
    /\ UNCHANGED share_vars
    /\ UNCHANGED aux_vars
    /\ UNCHANGED weekly_vars
    /\ held' = [held EXCEPT ![w] = FALSE]
    /\ UNCHANGED win

\* the worker process dies between its claim and its settle (before or after
\* the delivery) and is started again: nothing of the interrupted tick is
\* left but the row it wrote
Crash(w) ==
    /\ pc[w] \in {"generate", "sent"}
    /\ pc' = [pc EXCEPT ![w] = "idle"]
    /\ cands' = [cands EXCEPT ![w] = << >>]
    /\ w_now' = [w_now EXCEPT ![w] = 0]
    /\ w_elig' = [w_elig EXCEPT ![w] = FALSE]
    /\ w_row' = [w_row EXCEPT ![w] = DefaultRow]
    /\ w_fail_cd' = [w_fail_cd EXCEPT ![w] = 0]
    /\ UNCHANGED << now, ticks, user_state, db_writer, last_claim,
                    msgs, window_end, consec >>
    /\ UNCHANGED share_vars
    /\ UNCHANGED aux_vars
    /\ UNCHANGED weekly_vars
    /\ held' = [held EXCEPT ![w] = FALSE]
    /\ UNCHANGED win

(* ------------------- db.py: rss_seen, weather_daily_push --------------- *)
\* rss_seen(guid_hash): SELECT 1 FROM rss_seen WHERE guid_hash=? LIMIT 1
rss_seen(tbl, guid_hash) == \E r \in tbl : r.guid_hash = guid_hash

\* an INSERT that is lost
rss_mark_seen_lost(tbl, guid_hash, feed_url, link, now_ts) == tbl

\* rss_mark_seen: INSERT OR REPLACE INTO rss_seen, guid_hash the primary key
rss_mark_seen(tbl, guid_hash, feed_url, link, now_ts) ==
    { r \in tbl : r.guid_hash # guid_hash }
    \cup { [guid_hash |-> guid_hash, feed_url |-> feed_url, link |-> link,
            seen_ts |-> now_ts] }

\* weather_pushed_today(user_id, day)
weather_pushed_today(tbl, user_id, day) ==
    \E r \in tbl : r.user_id = user_id /\ r.day = day

\* weather_mark_pushed: INSERT OR REPLACE, (user_id, day) the primary key
weather_mark_pushed(tbl, user_id, day, now_ts) ==
    { r \in tbl : ~(r.user_id = user_id /\ r.day = day) }
    \cup { [user_id |-> user_id, day |-> day, pushed_ts |-> now_ts] }

\* the WHERE clause of get_idle_user_states and of get_weather_user_targets
IsActive(row, now_ts) ==
    /\ row.exists
    /\ row.proactive_enabled = 1
    /\ row.last_active_ts > 0
    /\ row.last_active_ts >= Max(0, now_ts - ACTIVE_WITHIN_SECONDS)

\* get_idle_user_states(limit): [(user_id, last_active_ts)] by last_active_ts
get_idle_user_states(tbl, now_ts, limit) ==
    LET ids == Take(SortByActive({u \in Users : IsActive(tbl[u], now_ts)}, tbl), limit)
    IN [i \in 1..Len(ids) |-> << ids[i], tbl[ids[i]].last_active_ts >>]

\* table user_profile, the rows with a city key: every user told a city
user_profile == [u \in Users |-> "city"]

\* get_weather_user_targets(): the active users with a non-empty city
get_weather_user_targets(tbl, now_ts) ==
    SortByActive({u \in Users : IsActive(tbl[u], now_ts) /\ user_profile[u] # ""}, tbl)

\* claim_rss_slot._sync lines 517-524: no row, a lock or a cooldown refuses
RssClaimDecision(row, now_ts) ==
    IF ~row.exists THEN FALSE
    ELSE IF row.lock_until_ts > now_ts THEN FALSE
    ELSE IF row.cooldown_until_ts > now_ts THEN FALSE
    ELSE TRUE

\* claim_rss_slot._sync2 lines 540-546: the UPDATE
RssCooldownUpdate(row, cooldown_until) ==
    IF ~row.exists THEN row
    ELSE [row EXCEPT !.cooldown_until_ts = cooldown_until, !.lock_until_ts = 0]

(* -------------------- rss_push.py: the share driver -------------------- *)
\* in_quiet_hours(now)
in_quiet_hours(now_ts) ==
    TimeOfDay(now_ts) >= QUIET_START \/ TimeOfDay(now_ts) < QUIET_END

\* a threshold that follows the clock instead of the day
PickIdleThresholdByClock(user_id, today) ==
    RSS_IDLE_MINUTES_MIN + ((user_id * 31 + now \div 60) %
        (RSS_IDLE_MINUTES_MAX - RSS_IDLE_MINUTES_MIN + 1))

\* _pick_idle_threshold_minutes(user_id, today): random.Random(seed).randint(lo,
\* hi), the seed made of the user and the day; the generator is stood for by a
\* fixed mixing of the two into lo..hi
_pick_idle_threshold_minutes(user_id, today) ==
    LET lo == IF RSS_IDLE_MINUTES_MIN <= RSS_IDLE_MINUTES_MAX
              THEN RSS_IDLE_MINUTES_MIN ELSE RSS_IDLE_MINUTES_MAX
        hi == Max(RSS_IDLE_MINUTES_MIN, RSS_IDLE_MINUTES_MAX)
    IN lo + ((user_id * 31 + today * 17) % (hi - lo + 1))

\* line 212: guid = it.guid or it.link (or title + published)
ItemGuid(it) == IF it.guid # "" THEN it.guid ELSE it.link

\* line 213: h = sha1(feed_url|guid); the digest is stood for by the pair it
\* is computed from
ItemHash(it) == << it.feed_url, ItemGuid(it) >>

\* what the feeds can return to one tick: two entries of one feed that name
\* the same article (the second without a guid), with or without an entry of
\* a second feed
Feeds ==
    { << [feed_url |-> "f1", guid |-> "g1", link |-> "l1"],
         [feed_url |-> "f1", guid |-> "",   link |-> "g1"] >>,
      << [feed_url |-> "f1", guid |-> "g1", link |-> "l1"],
         [feed_url |-> "f1", guid |-> "",   link |-> "g1"],
         [feed_url |-> "f2", guid |-> "g1", link |-> "l2"] >> }

\* the hashes of the items above, and one of an item no feed returns
AllHashes ==
    { ItemHash(items[i]) : items \in Feeds, i \in 1..2 }
    \cup { << "f2", "g1" >>, << "f2", "g2" >> }

\* lines 210-223: the first item whose hash is not in rss_seen (0: none)
RECURSIVE FirstUnseen(_, _, _)
FirstUnseen(items, tbl, i) ==
    IF i > Len(items) THEN 0
    ELSE IF ~rss_seen(tbl, ItemHash(items[i])) THEN i
    ELSE FirstUnseen(items, tbl, i + 1)

\* the for loop of _push_when_idle goes on to the next target, or the tick ends
ShareNext ==
    IF Len(r_targets) > 1
    THEN /\ r_targets' = Tail(r_targets)
         /\ r_pc' = "claim"
         /\ UNCHANGED << r_now, r_items >>
    ELSE /\ r_targets' = << >>
         /\ r_pc' = "idle"
         /\ r_now' = 0
         /\ r_items' = << >>

\* _push_when_idle lines 149-196: now, the quiet hours, the fetch, the targets
ShareStart ==
    /\ r_pc = "idle"
    /\ ~in_quiet_hours(now)
    /\ \E items \in Feeds : r_items' = items
    /\ LET targets == get_idle_user_states(user_state, now, IDLE_STATES_LIMIT)
       IN /\ targets # << >>
          /\ r_targets' = targets
    /\ r_now' = now
    /\ r_pc' = "claim"
    /\ UNCHANGED << now, ticks, user_state, db_writer, msgs, window_end, win,
                    rss_seen_tbl, weather_daily_push, marked,
                    wt_pc, wt_today, wt_targets >>
    /\ UNCHANGED nudge_vars
    /\ UNCHANGED aux_vars
    /\ UNCHANGED weekly_vars
    /\ UNCHANGED held

\* lines 198-208 and claim_rss_slot._sync: the idle threshold, then the claim
\* in one BEGIN IMMEDIATE transaction (it waits while another holds the lock)
ShareClaim ==
    /\ r_pc = "claim"
    /\ LET uid          == r_targets[1][1]
           idle_minutes == Max(0, (r_now - r_targets[1][2]) \div 60)
       IN IF idle_minutes < _pick_idle_threshold_minutes(uid, DayOf(r_now))
          THEN /\ ShareNext
               /\ UNCHANGED << user_state, win >>
          ELSE /\ CanWrite
               /\ IF RssClaimDecision(user_state[uid], r_now)
                  THEN /\ user_state' = [user_state EXCEPT ![uid].lock_until_ts =
                                            r_now + RSS_LOCK_SECONDS]
                       /\ win' = [win EXCEPT ![uid].share =
                                     Max(@, r_now + RSS_LOCK_SECONDS)]
                       /\ r_pc' = "claim2"
                       /\ UNCHANGED << r_now, r_targets, r_items >>
                  ELSE /\ ShareNext
                       /\ UNCHANGED << user_state, win >>
    /\ UNCHANGED << now, ticks, db_writer, msgs, window_end,
                    rss_seen_tbl, weather_daily_push, marked,
                    wt_pc, wt_today, wt_targets >>
    /\ UNCHANGED nudge_vars
    /\ UNCHANGED << scan_limit, tick_sent, late_vars >>
    /\ thr_used' = [thr_used EXCEPT ![r_targets[1][1]] = @ \cup
           { [day |-> DayOf(r_now),
              threshold |-> _pick_idle_threshold_minutes(r_targets[1][1], DayOf(r_now)),
              skipped |-> Max(0, (r_now - r_targets[1][2]) \div 60)
                  < _pick_idle_threshold_minutes(r_targets[1][1], DayOf(r_now))] }]
    /\ UNCHANGED weekly_vars
    /\ held' = [held EXCEPT !["share"] = r_pc' = "claim2"]

\* claim_rss_slot._sync2: the cooldown is written and the lock released
ShareClaim2 ==
    /\ r_pc = "claim2"
    /\ CanWrite
    /\ LET uid == r_targets[1][1]
           cooldown_until == r_now + RSS_COOLDOWN_MINUTES * 60
       IN /\ user_state' = [user_state EXCEPT ![uid] =
                               RssCooldownUpdate(@, cooldown_until)]
          /\ win' = [win EXCEPT ![uid].share = Max(@, cooldown_until)]
    /\ r_pc' = "pick"
    /\ UNCHANGED << now, ticks, db_writer, msgs, window_end,
                    rss_seen_tbl, weather_daily_push, marked, r_now, r_targets,
                    r_items, wt_pc, wt_today, wt_targets >>
    /\ UNCHANGED nudge_vars
    /\ UNCHANGED aux_vars
    /\ UNCHANGED weekly_vars
    /\ held' = [held EXCEPT !["share"] = FALSE]

\* lines 210-226: the first unseen item is chosen and marked seen
SharePick ==
    /\ r_pc = "pick"
    /\ LET i == FirstUnseen(r_items, rss_seen_tbl, 1)
       IN IF i = 0
          THEN /\ ShareNext
               /\ UNCHANGED << rss_seen_tbl, marked >>
          ELSE /\ CanWrite
               /\ rss_seen_tbl' = rss_mark_seen(rss_seen_tbl, ItemHash(r_items[i]),
                                      r_items[i].feed_url, r_items[i].link, now)
               /\ marked' = marked \cup { ItemHash(r_items[i]) }
               /\ r_pc' = "generate"
               /\ UNCHANGED << r_now, r_targets, r_items >>
    /\ UNCHANGED << now, ticks, user_state, db_writer, msgs, window_end, win,
                    weather_daily_push, wt_pc, wt_today, wt_targets >>
    /\ UNCHANGED nudge_vars
    /\ UNCHANGED aux_vars
    /\ UNCHANGED weekly_vars
    /\ UNCHANGED held

\* lines 229-241: the share text is generated and sent; an empty text or an
\* exception sends nothing
ShareGenerate ==
    /\ r_pc = "generate"
    /\ LET uid == r_targets[1][1]
       IN \E outcome \in {"text", "none"} :
             \/ /\ outcome = "text"
                /\ msgs' = [msgs EXCEPT ![uid] = @ + 1]
                /\ window_end' = [window_end EXCEPT ![uid] =
                       Max(@, r_now + RSS_COOLDOWN_MINUTES * 60)]
             \/ /\ outcome = "none"
                /\ UNCHANGED << msgs, window_end >>
    /\ ShareNext
    /\ UNCHANGED << now, ticks, user_state, db_writer, win,
                    rss_seen_tbl, weather_daily_push, marked,
                    wt_pc, wt_today, wt_targets >>
    /\ UNCHANGED nudge_vars
    /\ UNCHANGED aux_vars
    /\ UNCHANGED weekly_vars
    /\ UNCHANGED held

(* ----------------- weather_push.py: the weather driver ----------------- *)
\* the for loop of _push_weather_once goes on, or the job ends
WeatherNext ==
    IF Len(wt_targets) > 1
    THEN /\ wt_targets' = Tail(wt_targets)
         /\ wt_pc' = "check"
         /\ UNCHANGED wt_today
    ELSE /\ wt_targets' = << >>
         /\ wt_pc' = "idle"
         /\ wt_today' = NoDate

\* weather_morning (cron 08:20, misfire_grace_time 60) and _push_weather_once
\* lines 63-67: the targets, and today
WeatherStart ==
    /\ wt_pc = "idle"
    /\ TimeOfDay(now) >= WEATHER_PUSH_AT
    /\ TimeOfDay(now) <= WEATHER_PUSH_AT + MISFIRE_GRACE_TIME
    /\ LET targets == get_weather_user_targets(user_state, now)
       IN /\ targets # << >>
          /\ wt_targets' = targets
    /\ wt_today' = DayOf(now)
    /\ wt_pc' = "check"
    /\ UNCHANGED << now, ticks, user_state, db_writer, msgs, window_end, win,
                    rss_seen_tbl, weather_daily_push, marked,
                    r_pc, r_now, r_targets, r_items >>
    /\ UNCHANGED nudge_vars
    /\ UNCHANGED aux_vars
    /\ UNCHANGED weekly_vars
    /\ UNCHANGED held

\* lines 70-71: a user already pushed today is skipped
WeatherCheck ==
    /\ wt_pc = "check"
    /\ IF weather_pushed_today(weather_daily_push, wt_targets[1], wt_today)
       THEN WeatherNext
       ELSE wt_pc' = "send" /\ UNCHANGED << wt_targets, wt_today >>
    /\ UNCHANGED << now, ticks, user_state, db_writer, msgs, window_end, win,
                    rss_seen_tbl, weather_daily_push, marked,
                    r_pc, r_now, r_targets, r_items >>
    /\ UNCHANGED nudge_vars
    /\ UNCHANGED aux_vars
    /\ UNCHANGED weekly_vars
    /\ UNCHANGED held

\* lines 73-102: the briefing is generated and sent (voice or text); no
\* location, no text or an exception sends nothing and marks nothing
WeatherSend ==
    /\ wt_pc = "send"
    /\ \E outcome \in {"text", "none"} :
          \/ /\ outcome = "text"
             /\ msgs' = [msgs EXCEPT ![wt_targets[1]] = @ + 1]
             /\ wt_pc' = "mark"
             /\ UNCHANGED << wt_targets, wt_today >>
          \/ /\ outcome = "none"
             /\ WeatherNext
             /\ UNCHANGED msgs
    /\ UNCHANGED << now, ticks, user_state, db_writer, window_end, win,
                    rss_seen_tbl, weather_daily_push, marked,
                    r_pc, r_now, r_targets, r_items >>
    /\ UNCHANGED nudge_vars
    /\ UNCHANGED aux_vars
    /\ UNCHANGED weekly_vars
    /\ UNCHANGED held

\* line 103: weather_mark_pushed(uid, today)
WeatherMark ==
    /\ wt_pc = "mark"
    /\ CanWrite
    /\ weather_daily_push' =
           weather_mark_pushed(weather_daily_push, wt_targets[1], wt_today, now)
    /\ WeatherNext
    /\ UNCHANGED << now, ticks, user_state, db_writer, msgs, window_end, win,
                    rss_seen_tbl, marked, r_pc, r_now, r_targets, r_items >>
    /\ UNCHANGED nudge_vars
    /\ UNCHANGED aux_vars
    /\ UNCHANGED weekly_vars
    /\ UNCHANGED held

(* ------------- github_weekly_push.py: the weekly digest ---------------- *)
\* github_weekly_pushed(user_id, week)
github_weekly_pushed(tbl, user_id, week) ==
    \E r \in tbl : r.user_id = user_id /\ r.week = week

\* github_weekly_mark_pushed: INSERT OR REPLACE, (user_id, week) the primary key
github_weekly_mark_pushed(tbl, user_id, week, now_ts) ==
    { r \in tbl : ~(r.user_id = user_id /\ r.week = week) }
    \cup { [user_id |-> user_id, week |-> week, pushed_ts |-> now_ts] }

\* the clock of the weekly digest also stops at the time of its cron trigger
TickWeekly ==
    /\ ticks < MaxTicksWeekly
    /\ \A w \in Workers : pc[w] \notin {"claim", "claim_txn"}
    /\ \E t \in Instants \cup { NextWeeklyRun(now) } : t > now /\ now' = t
    /\ ticks' = ticks + 1
    /\ last_claim' = [w \in Workers |-> NoClaim]
    /\ UNCHANGED << user_state, db_writer, pc, cands, w_now, w_row,
                    w_fail_cd, w_elig, msgs, window_end, consec, win >>
    /\ UNCHANGED share_vars
    /\ UNCHANGED aux_vars
    /\ UNCHANGED weekly_vars
    /\ UNCHANGED held

\* github_weekly_job (cron sun 20:30, misfire_grace_time 6 h, max_instances 1)
\* calls _run_once(force=False, reason="cron"), once for a scheduled time
WeeklyCron ==
    /\ gw_pc["cron"] = "idle"
    /\ now - LastWeeklyRun(now) <= GITHUB_WEEKLY_GRACE_TIME
    /\ gw_cron_at # LastWeeklyRun(now)
    /\ gw_cron_at' = LastWeeklyRun(now)
    /\ gw_pc' = [gw_pc EXCEPT !["cron"] = "check"]
    /\ gw_force' = [gw_force EXCEPT !["cron"] = FALSE]
    /\ UNCHANGED << github_weekly_push, gw_week, gw_manual, gw_sent >>
    /\ UNCHANGED << now, ticks, user_state, db_writer, msgs, window_end, win >>
    /\ UNCHANGED share_vars
    /\ UNCHANGED aux_vars
    /\ UNCHANGED nudge_vars
    /\ UNCHANGED aux_vars
    /\ UNCHANGED held

\* handle_manual_trigger lines 162-187: user u writes "github周榜" (force: with
\* "强制"); a week already pushed to u is answered without a run, otherwise
\* _run_once(force, reason="manual") is called
WeeklyManual(u, force) ==
    /\ gw_pc["manual"] = "idle"
    /\ gw_manual < MaxManual
    /\ gw_manual' = gw_manual + 1
    /\ IF ~force /\ github_weekly_pushed(github_weekly_push, u, WeekOf(now))
       THEN UNCHANGED << gw_pc, gw_force >>
       ELSE /\ gw_pc' = [gw_pc EXCEPT !["manual"] = "check"]
            /\ gw_force' = [gw_force EXCEPT !["manual"] = force]
    /\ UNCHANGED << github_weekly_push, gw_week, gw_cron_at, gw_sent >>
    /\ UNCHANGED << now, ticks, user_state, db_writer, msgs, window_end, win >>
    /\ UNCHANGED share_vars
    /\ UNCHANGED aux_vars
    /\ UNCHANGED nudge_vars
    /\ UNCHANGED aux_vars
    /\ UNCHANGED held

\* _run_once lines 70-87: the switch, the week key, the week's mark
WeeklyCheck(r) ==
    /\ gw_pc[r] = "check"
    /\ IF \/ ~GITHUB_WEEKLY_ENABLED /\ ~gw_force[r]
          \/ /\ ~gw_force[r]
             /\ github_weekly_pushed(github_weekly_push, GITHUB_WEEKLY_USER_ID,
                                     WeekOf(now))
       THEN /\ gw_pc' = [gw_pc EXCEPT ![r] = "idle"]
            /\ gw_week' = [gw_week EXCEPT ![r] = NoDate]
            /\ gw_force' = [gw_force EXCEPT ![r] = FALSE]
       ELSE /\ gw_pc' = [gw_pc EXCEPT ![r] = "generate"]
            /\ gw_week' = [gw_week EXCEPT ![r] = WeekOf(now)]
            /\ UNCHANGED gw_force
    /\ UNCHANGED << github_weekly_push, gw_cron_at, gw_manual, gw_sent >>
    /\ UNCHANGED << now, ticks, user_state, db_writer, msgs, window_end, win >>
    /\ UNCHANGED share_vars
    /\ UNCHANGED aux_vars
    /\ UNCHANGED nudge_vars
    /\ UNCHANGED aux_vars
    /\ UNCHANGED held

\* _run_once lines 89-119: the trending list is fetched, the digest generated
\* and sent to GITHUB_WEEKLY_USER_ID; no items or no text sends no digest.
\* The digest of the cron trigger is one nobody asked for
WeeklySend(r) ==
    /\ gw_pc[r] = "generate"
    /\ \E outcome \in {"text", "none"} :
          \/ /\ outcome = "text"
             /\ gw_pc' = [gw_pc EXCEPT ![r] = "mark"]
             /\ msgs' = IF r = "cron"
                        THEN [msgs EXCEPT ![GITHUB_WEEKLY_USER_ID] = @ + 1]
                        ELSE msgs
             /\ gw_sent' = IF gw_force[r] THEN gw_sent
                           ELSE [gw_sent EXCEPT ![gw_week[r]] = @ + 1]
             /\ UNCHANGED << gw_week, gw_force >>
          \/ /\ outcome = "none"
             /\ gw_pc' = [gw_pc EXCEPT ![r] = "idle"]
             /\ gw_week' = [gw_week EXCEPT ![r] = NoDate]
             /\ gw_force' = [gw_force EXCEPT ![r] = FALSE]
             /\ UNCHANGED << msgs, gw_sent >>
    /\ UNCHANGED << github_weekly_push, gw_cron_at, gw_manual >>
    /\ UNCHANGED << now, ticks, user_state, db_writer, window_end, win >>
    /\ UNCHANGED share_vars
    /\ UNCHANGED aux_vars
    /\ UNCHANGED nudge_vars
    /\ UNCHANGED aux_vars
    /\ UNCHANGED held

\* _run_once line 121: github_weekly_mark_pushed(uid, week_key)
WeeklyMark(r) ==
    /\ gw_pc[r] = "mark"
    /\ CanWrite
    /\ github_weekly_push' = github_weekly_mark_pushed(github_weekly_push,
                                 GITHUB_WEEKLY_USER_ID, gw_week[r], now)
    /\ gw_pc' = [gw_pc EXCEPT ![r] = "idle"]
    /\ gw_week' = [gw_week EXCEPT ![r] = NoDate]
    /\ gw_force' = [gw_force EXCEPT ![r] = FALSE]
    /\ UNCHANGED << gw_cron_at, gw_manual, gw_sent >>
    /\ UNCHANGED << now, ticks, user_state, db_writer, msgs, window_end, win >>
    /\ UNCHANGED share_vars
    /\ UNCHANGED aux_vars
    /\ UNCHANGED nudge_vars
    /\ UNCHANGED aux_vars
    /\ UNCHANGED held

(* --------------------------- specifications ---------------------------- *)
NudgeStep(w) ==
    \/ JobScan(w)
    \/ ClaimBegin(w)
    \/ ClaimCommit(w)
    \/ Generate(w)
    \/ SettleSentRead(w)
    \/ SettleSentWrite(w)
    \/ SettleFailedRead(w)
    \/ SettleFailedWrite(w)
    \/ Crash(w)

Next ==
    \/ Tick
    \/ \E u \in Users : Touch(u)
    \/ \E w \in Workers : NudgeStep(w)

\* the nudge driver run by two worker processes on one database
Spec == Init /\ [][Next]_vars

ShareStep ==
    \/ ShareStart
    \/ ShareClaim
    \/ ShareClaim2
    \/ SharePick
    \/ ShareGenerate

WeatherStep ==
    \/ WeatherStart
    \/ WeatherCheck
    \/ WeatherSend
    \/ WeatherMark

NextShare ==
    \/ TickShare
    \/ \E u \in Users : Touch(u)
    \/ NudgeStep("w1")
    \/ ShareStep

\* the nudge and share drivers of one process on one database
SpecShare == Init /\ [][NextShare]_vars

NextAll ==
    \/ TickAll
    \/ \E u \in Users : Touch(u)
    \/ NudgeStep("w1")
    \/ ShareStep
    \/ WeatherStep

\* the nudge, share and weather drivers of one process on one database
SpecAll == Init /\ [][NextAll]_vars

\* the clock of the claim called directly
TickOps == Pass(MaxTicksOps)

\* claim_proactive_slot(user_id, now, today, max_per_day) called for any user
\* id, with or without a row, as _handle_one_candidate lines 69-77 calls it
\* (one user is followed in a behaviour)
DirectClaim(w, u) ==
    /\ pc[w] = "idle"
    /\ \A v \in Users \ {u} : ~user_state[v].exists
    /\ cands' = [cands EXCEPT ![w] = << u >>]
    /\ pc' = [pc EXCEPT ![w] = "claim"]
    /\ CallClaim(w, u)
    /\ UNCHANGED << now, ticks, user_state, db_writer, w_row,
                    w_fail_cd, last_claim, msgs, window_end, consec >>
    /\ UNCHANGED share_vars
    /\ UNCHANGED << scan_limit, thr_used, late_vars >>
    /\ tick_sent' = [tick_sent EXCEPT ![w] = {}]
    /\ UNCHANGED weekly_vars
    /\ UNCHANGED held
    /\ UNCHANGED win

NextOps ==
    \/ TickOps
    \/ \E u \in Users : Touch(u)
    \/ \E u \in Users : DirectClaim("w1", u)
    \/ NudgeStep("w1")

\* the claim and the two settles of one worker, the claim called for any user
SpecOps == Init /\ [][NextOps]_vars

\* the rows a scan can meet: no row, or a row whose last_active_ts lies on or
\* beside the two ends of the idle band, enabled or not, with a cooldown and a
\* lock that end now or one second later
ScanRows ==
    { DefaultRow } \cup
    { [DefaultRow EXCEPT !.exists = TRUE, !.last_active_ts = a,
                         !.proactive_enabled = e, !.cooldown_until_ts = c,
                         !.lock_until_ts = l] :
        a \in { T0 - ACTIVE_WITHIN_SECONDS - 1, T0 - ACTIVE_WITHIN_SECONDS,
                T0 - PROACTIVE_IDLE_HOURS * 3600 - 1,
                T0 - PROACTIVE_IDLE_HOURS * 3600,
                T0 - PROACTIVE_IDLE_HOURS * 3600 + 1 },
        e \in { 0, 1 }, c \in { T0, T0 + 1 }, l \in { T0, T0 + 1 } }

\* the limits a scan is called with
ScanLimits == { 1, 2, CANDIDATE_LIMIT }

\* a database with any of the rows above for every user, the workers idle
InitScan ==
    /\ now = T0
    /\ ticks = 0
    /\ user_state \in [Users -> ScanRows]
    /\ db_writer = NoWorker
    /\ pc = [w \in Workers |-> "idle"]
    /\ cands = [w \in Workers |-> << >>]
    /\ w_now = [w \in Workers |-> 0]
    /\ w_row = [w \in Workers |-> DefaultRow]
    /\ w_fail_cd = [w \in Workers |-> 0]
    /\ w_elig = [w \in Workers |-> FALSE]
    /\ last_claim = [w \in Workers |-> NoClaim]
    /\ msgs = [u \in Users |-> 0]
    /\ window_end = [u \in Users |-> 0]
    /\ consec = [u \in Users |-> NoRun]
    /\ rss_seen_tbl = {}
    /\ weather_daily_push = {}
    /\ marked = {}
    /\ r_pc = "idle"
    /\ r_now = 0
    /\ r_targets = << >>
    /\ wt_pc = "idle"
    /\ wt_today = NoDate
    /\ wt_targets = << >>
    /\ r_items = << >>
    /\ win = [u \in Users |-> NoWindow]
    /\ github_weekly_push = {}
    /\ gw_pc = [r \in GwRuns |-> "idle"]
    /\ gw_week = [r \in GwRuns |-> NoDate]
    /\ gw_force = [r \in GwRuns |-> FALSE]
    /\ gw_cron_at = 0
    /\ gw_manual = 0
    /\ gw_sent = [k \in Weeks |-> 0]
    /\ held = [d \in Drivers |-> FALSE]
    /\ scan_limit = 0
    /\ tick_sent = [w \in Workers |-> {}]
    /\ InitLate

\* get_proactive_candidates(now, now - PROACTIVE_IDLE_HOURS, limit) is called
\* and returns its list
ScanCall(limit) ==
    /\ scan_limit' = limit
    /\ cands' = [cands EXCEPT !["w1"] =
           get_proactive_candidates(user_state, now,
               now - PROACTIVE_IDLE_HOURS * 3600, limit)]
    /\ UNCHANGED << now, ticks, user_state, db_writer, pc, w_now, w_row,
                    w_fail_cd, w_elig, last_claim, msgs, window_end, consec,
                    win, held >>
    /\ UNCHANGED share_vars
    /\ UNCHANGED weekly_vars
    /\ UNCHANGED << tick_sent, thr_used, late_vars >>

NextScan == \E limit \in ScanLimits : ScanCall(limit)

\* get_proactive_candidates alone, called on any table
SpecScan == InitScan /\ [][NextScan]_vars

\* the clock of the rss_seen table
TickSeen == Pass(MaxTicksSeen)

\* the entries the feeds can return
Items == UNION { { items[i] : i \in 1..Len(items) } : items \in Feeds }

\* rss_mark_seen(guid_hash, feed_url, title, link) called for an entry, by any
\* caller and whatever rss_seen holds
MarkSeen(it) ==
    /\ CanWrite
    /\ rss_seen_tbl' = rss_mark_seen(rss_seen_tbl, ItemHash(it), it.feed_url,
                                     it.link, now)
    /\ marked' = marked \cup { ItemHash(it) }
    /\ UNCHANGED << now, ticks, user_state, db_writer, msgs, window_end, win,
                    weather_daily_push, r_pc, r_now, r_targets, r_items,
                    wt_pc, wt_today, wt_targets >>
    /\ UNCHANGED nudge_vars
    /\ UNCHANGED aux_vars
    /\ UNCHANGED weekly_vars
    /\ UNCHANGED held

NextSeen ==
    \/ TickSeen
    \/ \E it \in Items : MarkSeen(it)

\* the rss_seen table under calls of rss_mark_seen
SpecSeen == Init /\ [][NextSeen]_vars

WeeklyStep ==
    \/ WeeklyCron
    \/ \E u \in Users, force \in BOOLEAN : WeeklyManual(u, force)
    \/ \E r \in GwRuns : WeeklyCheck(r) \/ WeeklySend(r) \/ WeeklyMark(r)

NextWeekly ==
    \/ TickWeekly
    \/ \E u \in Users : Touch(u)
    \/ WeeklyStep

\* the weekly digest of one process: its cron trigger and its manual trigger
SpecWeekly == Init /\ [][NextWeekly]_vars

(* ------------- finance_daily: the market report's job gate -------------- *)
\* try_start_job_ex._sync lines 194-207: whether the row found lets the run
\* start (stale_after_seconds is at least 60)
try_start_job_ex(row, now_ts, force, stale_after_seconds) ==
    LET stale == Max(60, stale_after_seconds)
    IN IF row.status = "succeeded" /\ ~force THEN FALSE
       ELSE IF row.status = "started" /\ ~force
       THEN row.started_ts # 0 /\ (now_ts - row.started_ts) > stale
       ELSE TRUE

\* time passes for the report: to the end of the stale bound of the row and
\* to the second after it
TickFin ==
    /\ ticks < MaxTicksFin
    /\ \A r \in FinRunners : fin_pc[r] # "start"
    /\ fin_job.status # "none"
    /\ \E t \in { fin_job.started_ts + STALE_AFTER_SECONDS,
                  fin_job.started_ts + STALE_AFTER_SECONDS + 1 } :
          t > now /\ now' = t
    /\ ticks' = ticks + 1
    /\ UNCHANGED fin_vars
    /\ UNCHANGED << user_state, db_writer, msgs, window_end, win, held,
                    scan_limit, tick_sent, thr_used >>
    /\ UNCHANGED info_vars
    /\ UNCHANGED share_vars
    /\ UNCHANGED nudge_vars
    /\ UNCHANGED weekly_vars

\* run_cn_a_daily lines 356-370 and try_start_job_ex lines 188-190: a run is
\* asked for (by the cron job without force, by the command with or without)
\* and takes now_ts
FinCall(r, force) ==
    /\ fin_pc[r] = "idle"
    /\ force => r = "command"
    /\ fin_pc' = [fin_pc EXCEPT ![r] = "start"]
    /\ fin_now' = [fin_now EXCEPT ![r] = now]
    /\ fin_force' = [fin_force EXCEPT ![r] = force]
    /\ fin_peer' = [fin_peer EXCEPT ![r] = NoFinCall]
    /\ fin_ever' = IF force THEN "forced" ELSE fin_ever
    /\ UNCHANGED << fin_job, fin_last >>
    /\ UNCHANGED << now, ticks, user_state, db_writer, msgs, window_end, win,
                    held, scan_limit, tick_sent, thr_used >>
    /\ UNCHANGED info_vars
    /\ UNCHANGED share_vars
    /\ UNCHANGED nudge_vars
    /\ UNCHANGED weekly_vars

\* try_start_job_ex._sync lines 191-217 in one BEGIN IMMEDIATE transaction:
\* the row is replaced by a 'started' one, or the call is refused;
\* run_cn_a_daily lines 371-372
FinStart(r) ==
    /\ fin_pc[r] = "start"
    /\ LET ok == try_start_job_ex(fin_job, fin_now[r], fin_force[r],
                                  STALE_AFTER_SECONDS)
           me == [made |-> TRUE, force |-> fin_force[r], ok |-> ok,
                  now |-> fin_now[r], row |-> fin_job,
                  ever |-> fin_ever = "done",
                  peer_made |-> fin_peer[r].made,
                  peer_force |-> fin_peer[r].force,
                  peer_ok |-> fin_peer[r].ok]
       IN /\ fin_job' = IF ok THEN [status |-> "started",
                                    started_ts |-> fin_now[r]]
                              ELSE fin_job
          /\ fin_pc' = [fin_pc EXCEPT ![r] = IF ok THEN "running" ELSE "idle"]
          /\ fin_last' = [fin_last EXCEPT ![r] = me]
          /\ fin_peer' = [x \in FinRunners |->
                IF x # r /\ fin_pc[x] = "start" THEN me ELSE fin_peer[x]]
          /\ UNCHANGED fin_ever
    /\ UNCHANGED << fin_now, fin_force >>
    /\ UNCHANGED << now, ticks, user_state, db_writer, msgs, window_end, win,
                    held, scan_limit, tick_sent, thr_used >>
    /\ UNCHANGED info_vars
    /\ UNCHANGED share_vars
    /\ UNCHANGED nudge_vars
    /\ UNCHANGED weekly_vars

\* what leaves run_cn_a_daily's runner idle again
FinEnd(r) ==
    /\ fin_pc' = [fin_pc EXCEPT ![r] = "idle"]
    /\ fin_now' = [fin_now EXCEPT ![r] = 0]
    /\ fin_force' = [fin_force EXCEPT ![r] = FALSE]
    /\ UNCHANGED << fin_peer, fin_last >>
    /\ UNCHANGED << now, ticks, user_state, db_writer, msgs, window_end, win,
                    held, scan_limit, tick_sent, thr_used >>
    /\ UNCHANGED info_vars
    /\ UNCHANGED share_vars
    /\ UNCHANGED nudge_vars
    /\ UNCHANGED weekly_vars

\* run_cn_a_daily line 586 and mark_job_succeeded: UPDATE daily_jobs SET
\* status='succeeded' WHERE job_id=?
FinSucceed(r) ==
    /\ fin_pc[r] = "running"
    /\ fin_job' = [fin_job EXCEPT !.status = "succeeded"]
    /\ fin_ever' = IF fin_ever = "forced" THEN "forced" ELSE "done"
    /\ FinEnd(r)

\* run_cn_a_daily lines 595-597 and mark_job_failed: UPDATE daily_jobs SET
\* status='failed' WHERE job_id=?
FinFail(r) ==
    /\ fin_pc[r] = "running"
    /\ fin_job' = [fin_job EXCEPT !.status = "failed"]
    /\ UNCHANGED fin_ever
    /\ FinEnd(r)

NextFin ==
    \/ TickFin
    \/ \E r \in FinRunners : \E force \in BOOLEAN : FinCall(r, force)
    \/ \E r \in FinRunners : FinStart(r)
    \/ \E r \in FinRunners : FinSucceed(r)
    \/ \E r \in FinRunners : FinFail(r)

\* the market report asked for by the cron job and by the command
SpecFin == Init /\ [][NextFin]_vars

(* --------------- info_agent: the information push driver ---------------- *)
\* push.in_quiet_hours(now), lines 52-64
info_in_quiet_hours(now_ts) ==
    IF INFO_AGENT_QUIET_START_HOUR > INFO_AGENT_QUIET_END_HOUR
    THEN \/ TimeOfDay(now_ts) >= INFO_AGENT_QUIET_START_HOUR * 3600
         \/ TimeOfDay(now_ts) < INFO_AGENT_QUIET_END_HOUR * 3600
    ELSE /\ INFO_AGENT_QUIET_START_HOUR * 3600 <= TimeOfDay(now_ts)
         /\ TimeOfDay(now_ts) < INFO_AGENT_QUIET_END_HOUR * 3600

\* push.in_preferred_hours(now) without a user, lines 77-78
in_preferred_hours(now_ts) ==
    (TimeOfDay(now_ts) \div 3600) \in INFO_AGENT_FALLBACK_PUSH_HOURS

\* push.increment_daily_push_count(user_id), lines 43-49
increment_daily_push_count(count, user_id, today) ==
    [count EXCEPT ![user_id][today] = @ + 1]

\* push.get_daily_push_count(user_id), lines 36-40
get_daily_push_count(count, user_id, today) == count[user_id][today]

\* push.get_push_targets, lines 107-119: (user_id, idle_minutes)
RECURSIVE get_push_targets(_, _)
get_push_targets(states, now_ts) ==
    IF states = << >> THEN << >>
    ELSE << << states[1][1], Max(0, (now_ts - states[1][2]) \div 60) >> >>
         \o get_push_targets(Tail(states), now_ts)

\* time passes between two cycles of info_agent_job: to the next run of the
\* interval trigger, or to midnight
TickInfo ==
    /\ ticks < MaxTicksInfo
    /\ i_pc \in {"idle", "wait"}
    /\ \E t \in { now + INFO_AGENT_CHECK_INTERVAL_MINUTES * 60,
                  NextMidnight(now) } : now' = t
    /\ ticks' = ticks + 1
    /\ i_pc' = "idle"
    /\ UNCHANGED << info_count, info_pushed, i_now, i_targets, i_left >>
    /\ UNCHANGED fin_vars
    /\ UNCHANGED << user_state, db_writer, msgs, window_end, win, held,
                    scan_limit, tick_sent, thr_used >>
    /\ UNCHANGED share_vars
    /\ UNCHANGED nudge_vars
    /\ UNCHANGED weekly_vars

\* what the steps of a cycle leave alone
InfoFrame ==
    /\ UNCHANGED fin_vars
    /\ UNCHANGED << now, ticks, user_state, db_writer, window_end, win, held,
                    scan_limit, tick_sent, thr_used >>
    /\ UNCHANGED share_vars
    /\ UNCHANGED nudge_vars
    /\ UNCHANGED weekly_vars

\* the for loop of _run_push_cycle goes on to the next target, or the cycle
\* ends and the job waits for its next run
InfoNext ==
    IF Len(i_targets) > 1
    THEN /\ i_targets' = Tail(i_targets)
         /\ i_pc' = "decide"
         /\ UNCHANGED i_now
    ELSE /\ i_targets' = << >>
         /\ i_pc' = "wait"
         /\ i_now' = 0

\* _run_push_cycle lines 38-54: now, the quiet hours, the targets
InfoStart ==
    /\ i_pc = "idle"
    /\ ~info_in_quiet_hours(now)
    /\ LET targets == get_push_targets(
                          get_idle_user_states(user_state, now,
                                               IDLE_STATES_LIMIT), now)
       IN /\ targets # << >>
          /\ i_targets' = targets
    /\ i_now' = now
    /\ i_pc' = "decide"
    /\ UNCHANGED << info_count, info_pushed, i_left, msgs >>
    /\ InfoFrame

\* _run_push_cycle lines 57-89: the idle time, the daily limit, the preferred
\* hours, then the agent's decision, which returns any number of messages
InfoDecide ==
    /\ i_pc = "decide"
    /\ LET user_id      == i_targets[1][1]
           idle_minutes == i_targets[1][2]
           daily_count  == get_daily_push_count(info_count, user_id, DayOf(now))
       IN IF \/ idle_minutes < INFO_AGENT_IDLE_MINUTES_MIN
             \/ daily_count >= INFO_AGENT_DAILY_LIMIT
             \/ (~in_preferred_hours(i_now) /\ daily_count > 0)
          THEN /\ InfoNext
               /\ UNCHANGED i_left
          ELSE \E k \in 0..MaxDecision :
                  IF k = 0
                  THEN /\ InfoNext
                       /\ UNCHANGED i_left
                  ELSE /\ i_left' = k
                       /\ i_pc' = "push"
                       /\ UNCHANGED << i_targets, i_now >>
    /\ UNCHANGED << info_count, info_pushed, msgs >>
    /\ InfoFrame

\* push.push_messages lines 163-204: the next message of the decision is
\* delivered and counted, or its delivery raises and the loop breaks
InfoPush ==
    /\ i_pc = "push"
    /\ LET user_id == i_targets[1][1]
       IN \E outcome \in {"sent", "raise"} :
             \/ /\ outcome = "sent"
                /\ msgs' = [msgs EXCEPT ![user_id] = @ + 1]
                /\ info_pushed' = [info_pushed EXCEPT ![user_id][DayOf(now)] = @ + 1]
                /\ info_count' = increment_daily_push_count(info_count, user_id,
                                                            DayOf(now))
                /\ IF i_left > 1
                   THEN /\ i_left' = i_left - 1
                        /\ UNCHANGED << i_pc, i_targets, i_now >>
                   ELSE /\ i_left' = 0
                        /\ InfoNext
             \/ /\ outcome = "raise"
                /\ i_left' = 0
                /\ InfoNext
                /\ UNCHANGED << msgs, info_pushed, info_count >>
    /\ InfoFrame

NextInfo ==
    \/ TickInfo
    \/ InfoStart
    \/ InfoDecide
    \/ InfoPush

\* the cycles of the info agent in one process
SpecInfo == Init /\ [][NextInfo]_vars

(* ---------- proactive.py: exceptions within one tick of the driver ------ *)
\* an exception leaves proactive_job (lines 129-132 have no handler around
\* _handle_one_candidate): the tick is over, the scheduler logs the failure
AbortTick(w) ==
    /\ pc' = [pc EXCEPT ![w] = "idle"]
    /\ cands' = [cands EXCEPT ![w] = << >>]
    /\ w_now' = [w_now EXCEPT ![w] = 0]
    /\ w_elig' = [w_elig EXCEPT ![w] = FALSE]
    /\ w_row' = [w_row EXCEPT ![w] = DefaultRow]
    /\ w_fail_cd' = [w_fail_cd EXCEPT ![w] = 0]

\* _handle_one_candidate lines 72-77: claim_proactive_slot raises (db.py line
\* 299, BEGIN IMMEDIATE on a database another connection keeps locked); the
\* call stands before the try of line 81
ClaimRaise(w) ==
    /\ pc[w] = "claim"
    /\ AbortTick(w)
    /\ UNCHANGED << now, ticks, user_state, db_writer, last_claim,
                    msgs, window_end, consec >>
    /\ UNCHANGED share_vars
    /\ UNCHANGED aux_vars
    /\ UNCHANGED weekly_vars
    /\ UNCHANGED held
    /\ UNCHANGED win

\* _handle_one_candidate lines 93-105: _send_bubbles (lines 52-64) raises at
\* a later bubble when one was delivered, or mark_proactive_sent raises after
\* the delivery (its SELECT or its UPDATE); the handler of lines 102-105
\* settles as failed and the candidate returns False
RaiseAfterSend(w) ==
    /\ pc[w] \in {"generate", "sent", "sent_write"}
    /\ IF pc[w] = "generate"
       THEN /\ msgs' = [msgs EXCEPT ![cands[w][1]] = @ + 1]
            /\ tick_sent' = [tick_sent EXCEPT ![w] = @ \cup {cands[w][1]}]
       ELSE UNCHANGED << msgs, tick_sent >>
    /\ pc' = [pc EXCEPT ![w] = "failed"]
    /\ w_fail_cd' = [w_fail_cd EXCEPT ![w] = FAILED_COOLDOWN_SECONDS]
    /\ w_row' = [w_row EXCEPT ![w] = DefaultRow]
    /\ UNCHANGED << now, ticks, user_state, db_writer, cands, w_now,
                    w_elig, last_claim, window_end, consec >>
    /\ UNCHANGED share_vars
    /\ UNCHANGED << scan_limit, thr_used, late_vars >>
    /\ UNCHANGED weekly_vars
    /\ UNCHANGED held
    /\ UNCHANGED win

\* mark_proactive_failed raises: called at line 87, inside the try, the
\* handler of lines 102-105 calls it again; called at line 104, inside the
\* handler, the exception leaves _handle_one_candidate and proactive_job
SettleFailedRaise(w) ==
    /\ pc[w] \in {"failed", "failed_write"}
    /\ IF w_fail_cd[w] = NOSEND_COOLDOWN_SECONDS
       THEN /\ pc' = [pc EXCEPT ![w] = "failed"]
            /\ w_fail_cd' = [w_fail_cd EXCEPT ![w] = FAILED_COOLDOWN_SECONDS]
            /\ w_row' = [w_row EXCEPT ![w] = DefaultRow]
            /\ UNCHANGED << cands, w_now, w_elig, held >>
       ELSE /\ AbortTick(w)
            /\ held' = [held EXCEPT ![w] = FALSE]
    /\ UNCHANGED << now, ticks, user_state, db_writer, last_claim,
                    msgs, window_end, consec >>
    /\ UNCHANGED share_vars
    /\ UNCHANGED aux_vars
    /\ UNCHANGED weekly_vars
    /\ UNCHANGED win

\* rows of users the scan of a tick returns together: the rows of InitRows
\* that exist, and a user who wrote at 00:20 today and was nudged twice today
\* (at 02:20 and at 03:20)
TickRows ==
    (InitRows \ { DefaultRow }) \cup
    { [DefaultRow EXCEPT !.exists = TRUE, !.last_active_ts = T0 - 8 * 3600,
           !.last_proactive_ts = T0 - 5 * 3600, !.proactive_date = DayOf(T0),
           !.proactive_count_today = PROACTIVE_MAX_PER_DAY,
           !.cooldown_until_ts = T0 - 5 * 3600 + PROACTIVE_COOLDOWN_MINUTES * 60] }

\* a database in which every user has one of the rows above, the drivers idle
InitTick ==
    /\ now = T0
    /\ ticks = 0
    /\ user_state \in [Users -> TickRows]
    /\ db_writer = NoWorker
    /\ pc = [w \in Workers |-> "idle"]
    /\ cands = [w \in Workers |-> << >>]
    /\ w_now = [w \in Workers |-> 0]
    /\ w_row = [w \in Workers |-> DefaultRow]
    /\ w_fail_cd = [w \in Workers |-> 0]
    /\ w_elig = [w \in Workers |-> FALSE]
    /\ last_claim = [w \in Workers |-> NoClaim]
    /\ msgs = [u \in Users |-> 0]
    /\ window_end = [u \in Users |-> 0]
    /\ consec = [u \in Users |->
           IF user_state[u].proactive_count_today = 1
           THEN [day |-> user_state[u].proactive_date, n |-> 1] ELSE NoRun]
    /\ rss_seen_tbl = {}
    /\ weather_daily_push = {}
    /\ marked = {}
    /\ r_pc = "idle"
    /\ r_now = 0
    /\ r_targets = << >>
    /\ wt_pc = "idle"
    /\ wt_today = NoDate
    /\ wt_targets = << >>
    /\ r_items = << >>
    /\ win = [u \in Users |-> NoWindow]
    /\ github_weekly_push = {}
    /\ gw_pc = [r \in GwRuns |-> "idle"]
    /\ gw_week = [r \in GwRuns |-> NoDate]
    /\ gw_force = [r \in GwRuns |-> FALSE]
    /\ gw_cron_at = 0
    /\ gw_manual = 0
    /\ gw_sent = [k \in Weeks |-> 0]
    /\ held = [d \in Drivers |-> FALSE]
    /\ scan_limit = 0
    /\ tick_sent = [w \in Workers |-> {}]
    /\ InitLate

NextTick ==
    \/ JobScan("w1")
    \/ ClaimBegin("w1")
    \/ ClaimCommit("w1")
    \/ Generate("w1")
    \/ SettleSentRead("w1")
    \/ SettleSentWrite("w1")
    \/ SettleFailedRead("w1")
    \/ SettleFailedWrite("w1")
    \/ ClaimRaise("w1")
    \/ RaiseAfterSend("w1")
    \/ SettleFailedRaise("w1")

\* one worker's ticks over several candidates, with the exceptions the
\* database and the delivery can raise
SpecTick == InitTick /\ [][NextTick]_vars

(* ------------------------------ properties ----------------------------- *)
\* C1: when two workers call claim_proactive_slot for one user at the same
\* instant, on a row that is enabled, under quota, not cooling and not locked,
\* exactly one of the two calls returns true and the other returns false.
ClaimExclusive ==
    \A w, v \in Workers :
        ( /\ w \in last_claim[v].overlapped
          /\ last_claim[w].made /\ last_claim[v].made
          /\ last_claim[w].user = last_claim[v].user
          /\ last_claim[w].now = last_claim[v].now
          /\ last_claim[w].eligible /\ last_claim[v].eligible )
        => (last_claim[w].ok # last_claim[v].ok)

\* two calls on the claimable row at one instant ran side by side; the first
\* to commit won
ClaimExclusiveWitness ==
    \E w, v \in Workers :
        /\ w \in last_claim[v].overlapped
        /\ last_claim[w].made /\ last_claim[v].made
        /\ last_claim[w].user = last_claim[v].user
        /\ last_claim[w].now = last_claim[v].now
        /\ last_claim[w].eligible /\ last_claim[v].eligible
        /\ last_claim[w].ok /\ ~last_claim[v].ok

\* C2: once an unsolicited message has been sent to a user, no driver sends
\* that user a second one before the cooldown_until written for the first has
\* elapsed.
NoSecondMessageInWindow ==
    [][\A u \in Users : msgs'[u] > msgs[u] => window_end[u] <= now]_vars

\* C3: the stored count of sends of a user's stored day never exceeds
\* max_per_day.
QuotaNeverExceeded ==
    \A u \in Users : user_state[u].proactive_count_today <= PROACTIVE_MAX_PER_DAY

\* C4: a lock that no settle released (its worker crashed) refuses every claim
\* at a time before the stored lock_until and lets the claim succeed at
\* now == lock_until, for a user that is enabled, under quota and not cooling.
ClaimAfterCrash ==
    \A w \in Workers :
        LET c == last_claim[w]
        IN ( /\ c.made
             /\ c.row.lock_until_ts > 0
             /\ c.row.proactive_enabled = 1
             /\ EffectiveCount(c.row, DayOf(c.now)) < PROACTIVE_MAX_PER_DAY
             /\ c.row.cooldown_until_ts <= c.now )
           => (c.ok <=> c.now >= c.row.lock_until_ts)

\* the holder of the lock is gone without a settle, and a claim at the very
\* instant the lock ends succeeded
ClaimAfterCrashWitness ==
    \E w \in Workers :
        /\ last_claim[w].ok
        /\ last_claim[w].row.lock_until_ts > 0
        /\ last_claim[w].now = last_claim[w].row.lock_until_ts
        /\ \A v \in Workers \ {w} : pc[v] = "idle"

\* C5: for a user that is enabled, under quota and unlocked, claim returns
\* false at every now < cooldown_until and true at now == cooldown_until.
ClaimAfterCooldown ==
    \A w \in Workers :
        LET c == last_claim[w]
        IN ( /\ c.made
             /\ c.row.proactive_enabled = 1
             /\ EffectiveCount(c.row, DayOf(c.now)) < PROACTIVE_MAX_PER_DAY
             /\ c.row.lock_until_ts <= c.now )
           => (c.ok <=> c.now >= c.row.cooldown_until_ts)

\* a claim at the very instant the stored cooldown ends succeeded
ClaimAfterCooldownWitness ==
    \E w \in Workers :
        /\ last_claim[w].ok
        /\ last_claim[w].row.cooldown_until_ts > 0
        /\ last_claim[w].now = last_claim[w].row.cooldown_until_ts

\* C6: a claim of the share category succeeds only outside every window (lock
\* or cooldown) the nudge category wrote for the user, and a claim of the
\* nudge category only outside every window the share category wrote.
ClaimOutsideOtherWindow ==
    [][ /\ (r_pc = "claim" /\ r_pc' = "claim2")
            => win[r_targets[1][1]].nudge <= r_now
        /\ \A w \in Workers :
              (pc[w] = "claim_txn" /\ pc'[w] = "generate")
                  => win[cands[w][1]].share <= w_now[w] ]_vars

\* C7: after N settle_sent calls that follow one another on one day, starting
\* from a row of another day or of count 0, the stored count is N and the
\* stored day is that day.
ConsecutiveSentCount ==
    \A u \in Users :
        consec[u].n >= 1
            => /\ user_state[u].proactive_count_today = consec[u].n
               /\ user_state[u].proactive_date = consec[u].day

\* a run of two or more settle_sent calls on one day
ConsecutiveSentWitness ==
    \E u \in Users :
        /\ consec[u].n >= 2
        /\ user_state[u].proactive_count_today = consec[u].n

\* C8: a claim on a row whose stored day is not today succeeds whatever the
\* stored count (user enabled, not cooling, not locked), and no claim changes
\* the stored day or the stored count.
ClaimAcrossDays ==
    [][\A w \in Workers :
          (pc[w] = "claim_txn" /\ pc'[w] # "claim_txn") =>
              LET row == w_row[w]
                  u   == cands[w][1]
              IN /\ ( /\ row.proactive_date # DayOf(w_now[w])
                      /\ row.proactive_enabled = 1
                      /\ row.cooldown_until_ts <= w_now[w]
                      /\ row.lock_until_ts <= w_now[w] )
                    => pc'[w] = "generate"
                 /\ user_state'[u].proactive_date = user_state[u].proactive_date
                 /\ user_state'[u].proactive_count_today
                        = user_state[u].proactive_count_today ]_vars

\* a claim succeeded on a row of yesterday whose stored count is the quota,
\* and the row still holds that day and that count
ClaimAcrossDaysWitness ==
    \E w \in Workers :
        LET c == last_claim[w]
        IN /\ c.ok
           /\ c.row.proactive_date # DayOf(c.now)
           /\ c.row.proactive_count_today >= PROACTIVE_MAX_PER_DAY
           /\ pc[w] = "generate"
           /\ user_state[c.user].proactive_date = c.row.proactive_date
           /\ user_state[c.user].proactive_count_today = c.row.proactive_count_today

\* C9: every settle_sent on an existing row raises the count that holds for
\* its day by exactly one (to 1 on a new day).
SettleSentIncrements ==
    [][\A w \in Workers :
          (pc[w] = "sent_write" /\ pc'[w] = "idle") =>
              LET u     == cands[w][1]
                  today == DayOf(w_now[w])
              IN user_state[u].exists =>
                    EffectiveCount(user_state'[u], today)
                        = EffectiveCount(user_state[u], today) + 1 ]_vars

\* C10: a hash is seen exactly when rss_mark_seen was called for it: once
\* marked it stays seen, and a hash never marked is not seen.
SeenIffMarked ==
    \A h \in AllHashes : rss_seen(rss_seen_tbl, h) <=> h \in marked

\* a hash marked at an earlier instant is still seen, and another is not
SeenIffMarkedWitness ==
    /\ \E r \in rss_seen_tbl : r.seen_ts < now /\ rss_seen(rss_seen_tbl, r.guid_hash)
    /\ \E h \in AllHashes : h \notin marked /\ ~rss_seen(rss_seen_tbl, h)

\* C11: no driver delivers an unsolicited message to a user whose last
\* message is more than 24 hours old (or who never wrote).
NoMessageToUnreachable ==
    [][\A u \in Users : msgs'[u] > msgs[u] =>
          /\ user_state[u].exists
          /\ user_state[u].last_active_ts >= now - ACTIVE_WITHIN_SECONDS]_vars

\* C12: a settle_failed that runs beside another settle of the same user
\* never lowers the cooldown_until the other wrote: the row's
\* cooldown_until_ts after its UPDATE is at least the one before it.
SettleFailedKeepsCooldown ==
    [][\A w \in Workers :
          (pc[w] = "failed_write" /\ pc'[w] # "failed_write") =>
              LET u == cands[w][1]
              IN user_state'[u].cooldown_until_ts
                     >= user_state[u].cooldown_until_ts ]_vars

\* C13: while the generator of a driver that claims a slot (nudge, share) is
\* running, that driver's claim has succeeded and the driver has not settled
\* it yet (it has neither released the lock nor written the cooldown).
GenerateInsideClaim ==
    /\ \A w \in Workers : pc[w] = "generate" => held[w]
    /\ r_pc = "generate" => held["share"]

\* C14: a claim of the nudge driver succeeds only on a row that is still a
\* candidate of the scan at the time of the claim: enabled, idle for at least
\* the idle bound and at most 24 hours, not cooling, not locked.
ClaimOnlyCandidates ==
    \A w \in Workers :
        (last_claim[w].made /\ last_claim[w].ok) =>
            IsCandidate(last_claim[w].row, last_claim[w].now,
                        last_claim[w].now - PROACTIVE_IDLE_HOURS * 3600)

\* C15: during the quiet hours (23:00 to 08:00) no driver claims a slot and
\* no driver delivers an unsolicited message.
NothingInQuietHours ==
    [][( \/ \E d \in Drivers : held'[d] /\ ~held[d]
         \/ \E u \in Users : msgs'[u] > msgs[u] )
       => ~in_quiet_hours(now)]_vars

\* C16: over any interleaving of runs without force (the cron trigger, manual
\* triggers), the weekly digest is delivered at most once for a week key.
OneDigestPerWeek ==
    \A k \in Weeks : gw_sent[k] <= 1

\* C17: rss_mark_seen never changes a row rss_seen already holds: marking a
\* hash that is seen leaves its row (seen_ts, feed_url, link) as first stored.
MarkSeenKeepsRow ==
    [][\A r \in rss_seen_tbl : r \in rss_seen_tbl']_vars

\* C18: claim_proactive_slot returns true exactly when the row of the user
\* (the lazily created one when there was none) is enabled, its count of the
\* day is below max_per_day, its cooldown_until_ts is at most now and its
\* lock_until_ts is at most now; and when it returns true the stored
\* lock_until_ts is now + lock_seconds.
ClaimTrueIff ==
    [][\A w \in Workers :
          (pc[w] = "claim_txn" /\ pc'[w] # "claim_txn") =>
              LET u   == cands[w][1]
                  t   == w_now[w]
                  row == IF user_state[u].exists THEN user_state[u]
                         ELSE [DefaultRow EXCEPT !.exists = TRUE,
                                                 !.last_active_ts = t]
                  cnt == IF row.proactive_date = DayOf(t)
                         THEN row.proactive_count_today ELSE 0
                  ok  == pc'[w] = "generate"
              IN /\ ok <=> ( /\ row.proactive_enabled = 1
                             /\ cnt < PROACTIVE_MAX_PER_DAY
                             /\ row.cooldown_until_ts <= t
                             /\ row.lock_until_ts <= t )
                 /\ ok => user_state'[u].lock_until_ts = t + LOCK_SECONDS ]_vars

\* a claim returned true on a lazily created row, whose lock is now + 300
ClaimTrueIffWitness ==
    \E w \in Workers :
        /\ last_claim[w].made /\ last_claim[w].ok
        /\ ~last_claim[w].eligible
        /\ pc[w] = "generate"
        /\ user_state[last_claim[w].user].last_active_ts = last_claim[w].now
        /\ user_state[last_claim[w].user].lock_until_ts
               = last_claim[w].now + LOCK_SECONDS

\* C19: a claim that returns false leaves every table as it was (no row is
\* left behind for a user who had none); a claim that returns true for a user
\* who has a row changes nothing but the lock_until_ts of that row.
ClaimFrame ==
    [][\A w \in Workers :
          (pc[w] = "claim_txn" /\ pc'[w] # "claim_txn") =>
              LET u  == cands[w][1]
                  ok == pc'[w] = "generate"
              IN /\ UNCHANGED << rss_seen_tbl, weather_daily_push,
                                 github_weekly_push >>
                 /\ ~ok => user_state' = user_state
                 /\ (ok /\ user_state[u].exists) =>
                        user_state' = [user_state EXCEPT ![u].lock_until_ts =
                                          user_state'[u].lock_until_ts] ]_vars

\* one worker's claim returned true on an existing row, of which only the lock
\* differs from the row it read, and another's returned false on the row
\* that is stored
ClaimFrameWitness ==
    \E w, v \in Workers :
        /\ last_claim[w].made /\ last_claim[w].ok /\ last_claim[w].row.exists
        /\ last_claim[v].made /\ ~last_claim[v].ok
        /\ last_claim[v].user = last_claim[w].user
        /\ last_claim[w].row.last_proactive_ts > 0
        /\ user_state[last_claim[w].user] =
               [last_claim[w].row EXCEPT !.lock_until_ts =
                   last_claim[w].now + LOCK_SECONDS]
        /\ user_state[last_claim[v].user] = last_claim[v].row

\* C20: mark_proactive_failed(user, now, cooldown_seconds) on an existing row
\* leaves cooldown_until_ts at the larger of the stored cooldown_until_ts and
\* now + cooldown_seconds, and lock_until_ts at 0.
SettleFailedSetsMax ==
    [][\A w \in Workers :
          (pc[w] = "failed_write" /\ pc'[w] # "failed_write") =>
              LET u == cands[w][1]
              IN user_state[u].exists =>
                    /\ user_state'[u].cooldown_until_ts =
                           Max(user_state[u].cooldown_until_ts,
                               w_now[w] + w_fail_cd[w])
                    /\ user_state'[u].lock_until_ts = 0 ]_vars

\* the users a scan is to return: enabled, not cooling, not locked, and
\* last_active_ts between lo and the idle bound hi (hi included)
ScanBand(lo, hi) ==
    { u \in Users :
        /\ user_state[u].exists
        /\ user_state[u].proactive_enabled = 1
        /\ user_state[u].cooldown_until_ts <= now
        /\ user_state[u].lock_until_ts <= now
        /\ user_state[u].last_active_ts >= lo
        /\ user_state[u].last_active_ts <= hi }

\* seq lists, most idle first, the first scan_limit users of the set S
FirstOf(seq, S) ==
    /\ \A i \in 1..Len(seq) : seq[i] \in S
    /\ \A i, j \in 1..Len(seq) : i < j =>
           user_state[seq[i]].last_active_ts <= user_state[seq[j]].last_active_ts
    /\ \A i, j \in 1..Len(seq) : i # j => seq[i] # seq[j]
    /\ Len(seq) = (IF Cardinality(S) < scan_limit THEN Cardinality(S)
                                                  ELSE scan_limit)
    /\ \A u \in S : \A i \in 1..Len(seq) :
           (\A j \in 1..Len(seq) : seq[j] # u) =>
               user_state[seq[i]].last_active_ts <= user_state[u].last_active_ts

\* C21 (as stated): the scan returns the first `limit` users, most idle first,
\* of the users that are enabled, not cooling, not locked and whose
\* last_active_ts lies in (now - 24 h, now - idle]: idle exactly 24 h is out.
ScanHalfOpenBand ==
    scan_limit > 0 =>
        FirstOf(cands["w1"],
                ScanBand(now - ACTIVE_WITHIN_SECONDS + 1,
                         now - PROACTIVE_IDLE_HOURS * 3600))

\* C21 (amended): the same with the closed band [now - 24 h, now - idle]: a
\* user idle for exactly 24 h is returned.
ScanClosedBand ==
    scan_limit > 0 =>
        FirstOf(cands["w1"],
                ScanBand(now - ACTIVE_WITHIN_SECONDS,
                         now - PROACTIVE_IDLE_HOURS * 3600))

\* a scan with limit 1 met two users of the band, one idle for exactly 24 h
\* and one idle for exactly the idle bound, and returned the first
ScanClosedBandWitness ==
    /\ scan_limit = 1
    /\ Len(cands["w1"]) = 1
    /\ user_state[cands["w1"][1]].last_active_ts = now - ACTIVE_WITHIN_SECONDS
    /\ \E u \in ScanBand(now - ACTIVE_WITHIN_SECONDS,
                          now - PROACTIVE_IDLE_HOURS * 3600) :
           /\ u # cands["w1"][1]
           /\ user_state[u].last_active_ts = now - PROACTIVE_IDLE_HOURS * 3600

\* C22: within one tick of the nudge driver at most one user receives a
\* nudge: the candidates are taken one after another and the loop ends with
\* the first delivered nudge.
OneNudgePerTick ==
    \A w \in Workers : Cardinality(tick_sent[w]) <= 1

\* C23: within one tick of the nudge driver an exception raised while one
\* candidate is processed does not end the tick: the loop over the candidates
\* ends only after its last candidate or after a settled send.
ExceptionIsolated ==
    [][\A w \in Workers :
          (cands[w] # << >> /\ cands'[w] = << >>)
          => (Len(cands[w]) = 1 \/ pc[w] = "sent_write")]_vars

\* C24: when the generator of a driver whose claim succeeded raises, returns
\* no text or declines, the driver leaves the row as settle_failed does: the
\* lock cleared, cooldown_until_ts the larger of the stored one and now + the
\* failure cooldown (900 s or 600 s for a nudge, the share cooldown for a
\* share), the count of the day unchanged, and no message delivered.
GeneratorFailureSettles ==
    [][ /\ \A w \in Workers :
              (pc[w] = "generate" /\ pc'[w] = "failed") =>
                  /\ msgs' = msgs
                  /\ w_fail_cd'[w] \in {NOSEND_COOLDOWN_SECONDS,
                                        FAILED_COOLDOWN_SECONDS}
        /\ \A w \in Workers :
              (pc[w] = "failed_write" /\ pc'[w] # "failed_write") =>
                  LET u == cands[w][1]
                  IN /\ user_state'[u].lock_until_ts = 0
                     /\ user_state'[u].cooldown_until_ts =
                            Max(user_state[u].cooldown_until_ts,
                                w_now[w] + w_fail_cd[w])
                     /\ user_state'[u].proactive_count_today =
                            user_state[u].proactive_count_today
                     /\ user_state'[u].proactive_date =
                            user_state[u].proactive_date
                     /\ msgs' = msgs
        /\ (r_pc = "generate" /\ r_pc' # "generate" /\ msgs' = msgs) =>
              LET u == r_targets[1][1]
              IN /\ user_state'[u].lock_until_ts = 0
                 /\ user_state'[u].cooldown_until_ts =
                        Max(user_state[u].cooldown_until_ts,
                            r_now + RSS_COOLDOWN_MINUTES * 60)
                 /\ user_state'[u].proactive_count_today =
                        user_state[u].proactive_count_today ]_vars

MarksWrittenOnce ==
    [][ /\ \A r \in rss_seen_tbl : r \in rss_seen_tbl'
        /\ \A r \in weather_daily_push : r \in weather_daily_push'
        /\ \A r \in github_weekly_push : r \in github_weekly_push'
        /\ rss_seen_tbl' # rss_seen_tbl =>
              r_pc \notin {"idle", "claim", "claim2", "pick"}
        /\ weather_daily_push' # weather_daily_push => wt_pc = "mark"
        /\ github_weekly_push' # github_weekly_push =>
              \E r \in GwRuns : gw_pc[r] = "mark" ]_vars

\* C27: try_start_job_ex without force returns false on a 'started' row that
\* is not older than stale_after_seconds and on a 'succeeded' row, returns
\* true only on no row, a 'failed' row or a stale 'started' row; of two calls
\* without force that wait side by side the second returns false while the
\* run the first started is going on; and once
\* the job has succeeded no call without force returns true any more.
JobGateAdmitsOne ==
    \A r \in FinRunners :
        LET c == fin_last[r]
        IN (c.made /\ ~c.force) =>
              /\ ( c.row.status = "started"
                   /\ c.now - c.row.started_ts <= STALE_AFTER_SECONDS ) => ~c.ok
              /\ c.row.status = "succeeded" => ~c.ok
              /\ c.ok => \/ c.row.status \in {"none", "failed"}
                         \/ /\ c.row.status = "started"
                            /\ c.now - c.row.started_ts > STALE_AFTER_SECONDS
              /\ ( c.peer_made /\ ~c.peer_force /\ c.peer_ok
                   /\ c.row.status = "started" ) => ~c.ok
              /\ c.ever => ~c.ok

\* C28: the settle of a worker whose lock ended and whose user was claimed
\* again by a second worker leaves the second worker's lock in place: a
\* settle never changes lock_until_ts while another worker holds an unsettled
\* claim on the user whose lock has not ended, and no two workers hold an
\* unsettled claim on one user whose locks have both not ended.
StaleSettleKeepsLock ==
    [][ /\ \A w \in Workers :
              ( /\ pc[w] \in {"sent_write", "failed_write"}
                /\ pc'[w] \notin {"sent_write", "failed_write"}
                /\ \E v \in Workers \ {w} :
                      /\ held[v] /\ cands[v] # << >>
                      /\ cands[v][1] = cands[w][1]
                      /\ now < ClaimLockUntil(w_now[v], LOCK_SECONDS) )
              => user_state'[cands[w][1]].lock_until_ts
                     = user_state[cands[w][1]].lock_until_ts
        /\ \A w, v \in Workers :
              ( /\ w # v /\ held[w] /\ held[v]
                /\ cands[w] # << >> /\ cands[v] # << >>
                /\ cands[w][1] = cands[v][1] )
              => \/ now >= ClaimLockUntil(w_now[w], LOCK_SECONDS)
                 \/ now >= ClaimLockUntil(w_now[v], LOCK_SECONDS) ]_vars

\* C29: touch_active is the only operation that sets last_active_ts: no step
\* of a claim (the lazily created row included), of a settle or of a share
\* claim creates or changes the last_active_ts of any user; it changes only
\* in a step that moves no driver, to the time of the inbound message.
OnlyTouchSetsLastActive ==
    [][\A u \in Users :
          user_state'[u].last_active_ts # user_state[u].last_active_ts
          => /\ pc' = pc
             /\ r_pc' = r_pc
             /\ user_state'[u].last_active_ts = now ]_vars

\* C30: over any sequence of push cycles the info agent delivers at most
\* INFO_AGENT_DAILY_LIMIT messages to one user on one calendar day, however
\* many messages a decision returns.
InfoDailyLimit ==
    \A u \in Users : \A d \in InfoDays :
        info_pushed[u][d] <= INFO_AGENT_DAILY_LIMIT

====
